---- MODULE Spec2Model ----
(***************************************************************************)
(* Model of cloud-run-limit-checker: the checker job (checker/main.go),    *)
(* the deployment orchestrator (orchestrator main.go) and the deploy.sh    *)
(* script.  One behaviour is one run of one of the programs; the variable  *)
(* prog says which.  Names are sequences of one-character strings so that  *)
(* formatting (serviceName) is computed and not assumed.                   *)
(***************************************************************************)
EXTENDS Integers, Sequences, FiniteSets, TLC

VARIABLES
    prog,        \* which program this behaviour runs
    log,         \* stdout of the Go programs: the logJSON events, in order
    exitCode,    \* -1 while running, then 0 or 1: the exit status
    exists,      \* short names of the services the project holds (remote)
    requests,    \* the scaling settings of the create/deploy requests sent
    supplied,    \* the environment variables / flags given a value
    CONCURRENCY, \* the value of the checker's CONCURRENCY variable
    \* ---- checker/main.go
    concurrency, \* parseConcurrency(os.Getenv("CONCURRENCY"), 10)
    listing,     \* what listServices did: [done, err, found]
    services,    \* []serviceInfo returned by listServices
    cpc,         \* position of the checker's main goroutine
    spawned,     \* number of iterations done by pingAll's range loop
    wpc,         \* position of each worker goroutine of pingAll
    sem,         \* number of tokens held in the channel sem
    wg,          \* counter of the sync.WaitGroup
    results,     \* pingAll's results slice
    gets,        \* the HTTP GETs answered so far: [idx, url, outcome]
    logged,      \* number of results main has logged
    passed,      \* main's passed counter
    pingFailed,  \* main's failed counter
    \* ---- orchestrator main.go
    Cleanup,     \* cfg.Cleanup
    Count,       \* cfg.Count
    VerifyOnly,  \* cfg.VerifyOnly
    execution,   \* runChecker: what Wait and the log read returned
    opc,         \* position of the orchestrator
    fi,          \* index of the fire loop
    serviceNames,\* deleteServices: the names the listing matched
    ops,         \* the accepted operations, in submission order
    wi,          \* number of ops entries the wait loop has handled
    skipped,     \* deployServices' skipped counter
    succeeded,   \* succeeded counter of the wait loop
    failed,      \* failed counter of the wait loop
    ret,         \* "none", "nil" or "err": what the phase returned
    calls,       \* the API calls of this run: [api, name, resp]
    orun,        \* number of the orchestrator run (same flags each run)
    prevLog,     \* the per-service events of the previous run's stdout
    \* ---- scripts/deploy.sh
    COUNT,       \* --count
    BATCH_SIZE,  \* --batch-size
    spc,         \* position of the script
    existing,    \* deploy_services: names the listing printed
    all_names,   \* deploy_services: names that need deploying
    retry,       \* deploy_services: retry counter
    service_names, \* deploy_batch_list: its arguments
    FAILED_NAMES,  \* global array filled by deploy_batch_list
    bi,          \* deploy_batch_list: i
    batch_end,   \* deploy_batch_list: batch_end
    bj,          \* deploy_batch_list: j
    bk,          \* deploy_batch_list: k
    batch_names, \* deploy_batch_list: batch_names (pids runs parallel to it)
    proc,        \* state of the background gcloud process of each name
    submitted,   \* number of gcloud run deploy commands issued per name
    attempts,    \* exit statuses reaped per name, in order
    launched,    \* names launched in the current round, in order
    history,     \* per finished round: [args, launched, failed]
    execs,       \* the checker job executions started, each with its state
    \* ---- wipe.sh (it shares BATCH_SIZE, spc, bi, batch_end, bj, bk,
    \*      batch_names and proc with deploy.sh: the same shell variables)
    SERVICES,    \* names the discovery read from the listing
    CHECKER_EXISTS, \* whether gcloud run jobs describe checker succeeded
    DELETE_REPO, \* --delete-repo
    DELETE_VM,   \* --delete-vm
    YES,         \* --yes
    confirm,     \* what read stored from the prompt ("unread" before it)
    w_succeeded, \* wipe.sh: succeeded
    w_failed,    \* wipe.sh: failed
    jobExists,   \* whether the project holds the checker job (remote)
    listOk,      \* "none", "ok" or "failed": gcloud run services list
    deletes,     \* the delete commands issued so far: [cmd, name]
    \* ---- the target generator on its own (serviceName, service_name)
    gen,         \* its input: [fn, prefix, count]
    gpc,         \* "start" before the loop over the ordinals, "done" after
    ids          \* the names the loop produced, in ordinal order

checkerVars == <<concurrency, listing, services, cpc, spawned, wpc, sem, wg,
                 results, gets, logged, passed, pingFailed>>

orchVars == <<Cleanup, VerifyOnly, execution, Count, opc, fi, serviceNames,
              ops, wi, skipped, succeeded, failed, ret, calls, orun, prevLog>>

scriptVars == <<COUNT, execs, BATCH_SIZE, spc, existing, all_names, retry,
                service_names, FAILED_NAMES, bi, batch_end, bj, bk,
                batch_names, proc, submitted, attempts, launched, history>>

wipeVars == <<SERVICES, CHECKER_EXISTS, DELETE_REPO, DELETE_VM, YES, confirm,
              w_succeeded, w_failed, jobExists, listOk, deletes>>

genVars == <<gen, gpc, ids>>

idleForChecker == <<prog, supplied, CONCURRENCY, genVars, requests, exists, orchVars,
                    scriptVars, wipeVars>>
idleForOrch == <<prog, supplied, CONCURRENCY, genVars, checkerVars, scriptVars, wipeVars>>
idleForScript == <<prog, supplied, CONCURRENCY, genVars, checkerVars, orchVars, wipeVars>>
idleForWipe == <<prog, supplied, CONCURRENCY, genVars, requests, checkerVars, orchVars,
                 COUNT, execs, existing, all_names, retry, service_names,
                 FAILED_NAMES, submitted, attempts, launched, history>>

----------------------------------------------------------------------------
(* Bounds *)
MaxServices == 3      \* most services a listing returns
MaxFair == 2          \* most services plus targets of a run checked for termination
MaxConcurrency == 2   \* largest CONCURRENCY value tried
MaxWork == 6          \* most services times permits of a checker run
MaxCount == 3         \* largest --count value tried
MaxRuns == 2          \* runs of the orchestrator in a row
MaxBatch == 2         \* largest --batch-size value tried
MaxNegative == 1      \* the lowest --count given is -MaxNegative
MaxMixed == 1         \* most target services listed next to unrelated ones

(* Program constants *)
Prefix == <<"s", "v", "c">>   \* the --prefix / PREFIX value of the run
StatusOK == 200               \* http.StatusOK
max_retries == 3              \* deploy_services: local max_retries=3

----------------------------------------------------------------------------
(* fmt.Sprintf("%03d", n): decimal digits, zero-padded to width >= 3 *)
Digit(d) == CASE d = 0 -> "0" [] d = 1 -> "1" [] d = 2 -> "2" [] d = 3 -> "3"
              [] d = 4 -> "4" [] d = 5 -> "5" [] d = 6 -> "6" [] d = 7 -> "7"
              [] d = 8 -> "8" [] d = 9 -> "9"

RECURSIVE Digits(_)
Digits(n) == IF n < 10 THEN <<Digit(n)>>
             ELSE Append(Digits(n \div 10), Digit(n % 10))

(* the width of the %03d verb of serviceName and service_name *)
PadWidth == 3

RECURSIVE ZeroPad(_, _)
ZeroPad(s, w) == IF Len(s) >= w THEN s ELSE ZeroPad(<<"0">> \o s, w)

(* fmt.Sprintf("%s-%03d", prefix, index) *)
serviceNameUnpadded(prefix, index) == prefix \o <<"-">> \o Digits(index)
serviceName(prefix, index) ==
    prefix \o <<"-">> \o ZeroPad(Digits(index), PadWidth)

(* the Uri field the Cloud Run API reports for a service *)
UriOf(name) == <<"h", ":">> \o name

(* strings.HasPrefix(shortName, prefix) *)
HasPrefix(s, prefix) ==
    /\ Len(s) >= Len(prefix)
    /\ SubSeq(s, 1, Len(prefix)) = prefix

(* services of the project that the tool did not deploy: for the prefix *)
(* "service" these are "servicefoo" and "service-mesh"                   *)
PrefixFoo == Prefix \o <<"f", "o", "o">>
PrefixMesh == Prefix \o <<"-", "m", "e", "s", "h">>
Unrelated == {PrefixFoo, PrefixMesh}

MaxOrdinal == IF MaxServices > MaxCount THEN MaxServices ELSE MaxCount

(* every service name of the model, in the order the API lists them *)
Catalogue ==
    [i \in 1..MaxOrdinal |-> serviceName(Prefix, i - 1)]
        \o <<PrefixFoo, PrefixMesh>>

(* the pages of ListServices: the services the project holds *)
RemoteList == SelectSeq(Catalogue, LAMBDA n : n \in exists)

(* the names of a listing that pass strings.HasPrefix(shortName, pre) *)
RECURSIVE KeepPrefixed(_, _)
KeepPrefixed(names, pre) ==
    IF names = <<>> THEN <<>>
    ELSE (IF HasPrefix(Head(names), pre) THEN <<Head(names)>> ELSE <<>>)
             \o KeepPrefixed(Tail(names), pre)

----------------------------------------------------------------------------
(* checker/main.go *)

(* what one GET can do: fail in transport, or answer with a status and a  *)
(* body that can or cannot be read                                         *)
ProbeOutcomes ==
    {[kind |-> "transport", status |-> 0, readOk |-> FALSE]} \cup
    {[kind |-> "response", status |-> 200, readOk |-> TRUE],
     [kind |-> "response", status |-> 500, readOk |-> TRUE],
     [kind |-> "response", status |-> 200, readOk |-> FALSE]}

zeroResult == [Service |-> <<>>, URL |-> <<>>, StatusCode |-> 0,
               Body |-> "", Pass |-> FALSE, Error |-> ""]

pingURL(svc) == svc.URI \o <<"/", "p", "i", "n", "g">>

pingServiceByStatusOnly(svc, o) ==
    IF o.kind = "transport"
    THEN [Service |-> svc.Name, URL |-> pingURL(svc), StatusCode |-> 0,
          Body |-> "", Pass |-> FALSE, Error |-> "transport"]
    ELSE [Service |-> svc.Name, URL |-> pingURL(svc), StatusCode |-> o.status,
          Body |-> "body", Pass |-> (o.status = StatusOK), Error |-> ""]

pingService(svc, o) ==
    IF o.kind = "transport"
    THEN [Service |-> svc.Name, URL |-> pingURL(svc), StatusCode |-> 0,
          Body |-> "", Pass |-> FALSE, Error |-> "transport"]
    ELSE IF ~o.readOk
    THEN [Service |-> svc.Name, URL |-> pingURL(svc), StatusCode |-> o.status,
          Body |-> "", Pass |-> FALSE, Error |-> "failed to read response body"]
    ELSE [Service |-> svc.Name, URL |-> pingURL(svc), StatusCode |-> o.status,
          Body |-> "body", Pass |-> (o.status = StatusOK), Error |-> ""]

N == Len(services)

serviceInfos(names) ==
    [i \in 1..Len(names) |-> [Name |-> names[i], URI |-> UriOf(names[i])]]

(* strconv.Atoi on a string of at most a sign and decimal digits *)
DigitChars == {"0", "1", "2", "3", "4", "5", "6", "7", "8", "9"}

DigitValue(c) == CHOOSE d \in 0..9 : Digit(d) = c

RECURSIVE Decimal(_)
Decimal(s) == IF s = <<>> THEN 0
              ELSE 10 * Decimal(SubSeq(s, 1, Len(s) - 1))
                       + DigitValue(s[Len(s)])

(* the digits of 1<<63 - 1, the largest int of the 64-bit build *)
MaxInt == <<"9", "2", "2", "3", "3", "7", "2", "0", "3", "6", "8", "5", "4",
            "7", "7", "5", "8", "0", "7">>

(* the digits of 1<<63, the magnitude of the smallest int *)
MinIntDigits == SubSeq(MaxInt, 1, Len(MaxInt) - 1) \o <<"8">>

RECURSIVE TrimZeros(_)
TrimZeros(s) == IF Len(s) > 1 /\ s[1] = "0" THEN TrimZeros(Tail(s)) ELSE s

(* a <= b for two digit strings without leading zeros *)
NumeralLeq(a, b) ==
    \/ Len(a) < Len(b)
    \/ /\ Len(a) = Len(b)
       /\ \/ a = b
          \/ \E k \in 1..Len(a) :
                /\ SubSeq(a, 1, k - 1) = SubSeq(b, 1, k - 1)
                /\ DigitValue(a[k]) < DigitValue(b[k])

(* strconv.Atoi: an optional sign and decimal digits; a syntax error or *)
(* a value outside the int range gives an error                        *)
Atoi(val) ==
    LET signed == val # <<>> /\ val[1] \in {"-", "+"}
        digits == IF signed THEN Tail(val) ELSE val
        ok == /\ digits # <<>>
              /\ \A k \in 1..Len(digits) : digits[k] \in DigitChars
              /\ NumeralLeq(TrimZeros(digits),
                            IF val[1] = "-" THEN MinIntDigits ELSE MaxInt)
    IN  [err |-> ~ok,
         n |-> IF ~ok THEN 0
               ELSE IF signed /\ val[1] = "-" THEN 0 - Decimal(digits)
               ELSE Decimal(digits)]

(* a parser that takes every integer, zero and negatives included *)
parseConcurrencyNoFloor(val, defaultVal) ==
    IF val = <<>> THEN defaultVal
    ELSE IF Atoi(val).err THEN defaultVal
    ELSE Atoi(val).n

parseConcurrency(val, defaultVal) ==
    IF val = <<>> THEN defaultVal
    ELSE IF Atoi(val).err \/ Atoi(val).n < 1 THEN defaultVal
    ELSE Atoi(val).n

(* the fallback main passes to parseConcurrency *)
defaultConcurrency == 10

(* the variables main reads with requireEnv *)
RequiredEnv == {"PROJECT_ID", "REGION", "PREFIX"}

(* main up to the startup event: requireEnv logs missing_env and exits 1 *)
(* for the first required variable that is empty                         *)
RequireEnv ==
    /\ prog = "checker" /\ cpc = "env"
    /\ IF RequiredEnv \subseteq supplied
       THEN /\ concurrency' = parseConcurrency(CONCURRENCY, defaultConcurrency)
            /\ log' = Append(log, [event |-> "startup", service |-> <<>>])
            /\ cpc' = "start"
            /\ UNCHANGED exitCode
       ELSE /\ log' = Append(log, [event |-> "missing_env", service |-> <<>>])
            /\ exitCode' = 1
            /\ cpc' = "exited"
            /\ UNCHANGED concurrency
    /\ UNCHANGED <<idleForChecker, listing, services, spawned,
                   wpc, sem, wg, results, gets, logged, passed,
                   pingFailed>>

(* listServices and main's test of its error: it.Next() returns the      *)
(* k-th service, iterator.Done after the last one, or an error at any    *)
(* point; on an error listServices returns nil and main logs             *)
(* list_services_failed and exits 1 (wpc and results are given the       *)
(* length of the result here)                                            *)
ListServices ==
    /\ prog = "checker" /\ cpc = "start"
    /\ \E k \in 0..Len(RemoteList), err \in BOOLEAN :
          /\ ~err => k = Len(RemoteList)
          /\ LET found == serviceInfos(
                              KeepPrefixed(SubSeq(RemoteList, 1, k), Prefix))
                 returned == IF err THEN <<>> ELSE found
             IN  /\ listing' = [done |-> TRUE, err |-> err, found |-> found]
                 /\ services' = returned
                 /\ wpc' = [i \in 1..Len(returned) |-> "none"]
                 /\ results' = [i \in 1..Len(returned) |-> zeroResult]
                 /\ IF err
                    THEN /\ log' = Append(log, [event |-> "list_services_failed",
                                                service |-> <<>>])
                         /\ exitCode' = 1
                         /\ cpc' = "exited"
                    ELSE /\ cpc' = "listed"
                         /\ UNCHANGED <<log, exitCode>>
    /\ UNCHANGED <<idleForChecker, concurrency, spawned, sem, wg, gets,
                   logged, passed, pingFailed>>

(* main up to the call of pingAll: the listing came back *)
MainStart ==
    /\ prog = "checker" /\ cpc = "listed"
    /\ IF N = 0
       THEN /\ log' = Append(log, [event |-> "no_services", service |-> <<>>])
            /\ exitCode' = 1
            /\ cpc' = "exited"
       ELSE /\ log' = Append(log, [event |-> "services_found", service |-> <<>>])
            /\ cpc' = "pingAll"
            /\ UNCHANGED exitCode
    /\ UNCHANGED <<idleForChecker, concurrency, listing, services, spawned,
                   wpc, sem, wg, results, gets, logged, passed,
                   pingFailed>>

(* one iteration of pingAll's range loop: wg.Add(1); go func(i, svc) *)
Spawn ==
    /\ prog = "checker" /\ cpc = "pingAll" /\ spawned < N
    /\ spawned' = spawned + 1
    /\ wg' = wg + 1
    /\ wpc' = [wpc EXCEPT ![spawned + 1] = "ready"]
    /\ UNCHANGED <<idleForChecker, log, exitCode, concurrency, listing,
                   services, cpc, sem, results, gets, logged, passed,
                   pingFailed>>

(* sem <- struct{}{} : blocks while the channel is full *)
AcquireGuardUnbounded(idx) == TRUE
AcquireGuard(idx) == sem < concurrency

Acquire(idx) ==
    /\ prog = "checker" /\ wpc[idx] = "ready"
    /\ AcquireGuard(idx)
    /\ sem' = sem + 1
    /\ wpc' = [wpc EXCEPT ![idx] = "pinging"]
    /\ UNCHANGED <<idleForChecker, log, exitCode, concurrency, listing,
                   services, cpc, spawned, wg, results, gets, logged,
                   passed, pingFailed>>

(* results[idx] = pingService(s) *)
SlotCompletionOrder(idx) == Len(gets) + 1
Slot(idx) == idx

(* the goroutine calls pingService once, whatever it returns *)
RetryFailedPing(r) == IF r.Pass THEN "pinged" ELSE "pinging"
AfterPing(r) == "pinged"

Ping(idx) ==
    /\ prog = "checker" /\ wpc[idx] = "pinging"
    /\ \E o \in ProbeOutcomes :
          /\ gets' = Append(gets, [idx |-> idx, url |-> pingURL(services[idx]),
                                   outcome |-> o])
          /\ results' = [results EXCEPT
                            ![Slot(idx)] = pingService(services[idx], o)]
          /\ wpc' = [wpc EXCEPT
                        ![idx] = AfterPing(pingService(services[idx], o))]
    /\ UNCHANGED <<idleForChecker, log, exitCode, concurrency, listing,
                   services, cpc, spawned, sem, wg, logged, passed,
                   pingFailed>>

(* a worker that never gives its permit back *)
KeepPermit(held) == held

(* <-sem : one value leaves the channel *)
Receive(held) == held - 1

Release(idx) ==
    /\ prog = "checker" /\ wpc[idx] = "pinged"
    /\ sem' = Receive(sem)
    /\ wpc' = [wpc EXCEPT ![idx] = "released"]
    /\ UNCHANGED <<idleForChecker, log, exitCode, concurrency, listing,
                   services, cpc, spawned, wg, results, gets, logged,
                   passed, pingFailed>>

(* defer wg.Done() *)
Done(idx) ==
    /\ prog = "checker" /\ wpc[idx] = "released"
    /\ wg' = wg - 1
    /\ wpc' = [wpc EXCEPT ![idx] = "done"]
    /\ UNCHANGED <<idleForChecker, log, exitCode, concurrency, listing,
                   services, cpc, spawned, sem, results, gets, logged,
                   passed, pingFailed>>

(* wg.Wait(); return results *)
WaitAll ==
    /\ prog = "checker" /\ cpc = "pingAll" /\ spawned = N /\ wg = 0
    /\ cpc' = "report"
    /\ UNCHANGED <<idleForChecker, log, exitCode, concurrency, listing,
                   services, spawned, wpc, sem, wg, results, gets, logged,
                   passed, pingFailed>>

(* the else branch of "if r.Pass" *)
CountedFailedOnError(r) == r.Error # ""
CountedFailed(r) == ~r.Pass

(* one iteration of main's loop over results *)
LogResult ==
    /\ prog = "checker" /\ cpc = "report" /\ logged < Len(results)
    /\ LET r == results[logged + 1] IN
          /\ log' = Append(log, [event |-> "ping_result", service |-> r.Service,
                                 status_code |-> r.StatusCode, pass |-> r.Pass,
                                 error |-> r.Error])
          /\ passed' = IF r.Pass THEN passed + 1 ELSE passed
          /\ pingFailed' = IF CountedFailed(r) THEN pingFailed + 1
                           ELSE pingFailed
    /\ logged' = logged + 1
    /\ UNCHANGED <<idleForChecker, exitCode, concurrency, listing,
                   services, cpc, spawned, wpc, sem, wg, results, gets>>

(* if failed > 0 { os.Exit(1) }; main returns otherwise *)
ExitStatusAlwaysZero(nfailed) == 0
ExitStatus(nfailed) == IF nfailed > 0 THEN 1 ELSE 0

(* the summary event and the exit status *)
Summary ==
    /\ prog = "checker" /\ cpc = "report" /\ logged = Len(results)
    /\ log' = Append(log, [event |-> "summary", total |-> Len(results),
                           passed |-> passed, failed |-> pingFailed])
    /\ exitCode' = ExitStatus(pingFailed)
    /\ cpc' = "exited"
    /\ UNCHANGED <<idleForChecker, concurrency, listing, services, spawned,
                   wpc, sem, wg, results, gets, logged, passed,
                   pingFailed>>

(* the environment of a checker run: CONCURRENCY, and a project that    *)
(* holds the first n deployed services, or fewer of them next to        *)
(* services that belong to something else                               *)
(* the values of CONCURRENCY the runs are given: unset, or a decimal *)
ConcurrencyValues == {<<>>} \cup {Digits(n) : n \in 1..MaxConcurrency}

(* values of CONCURRENCY that are not a plain numeral from 1 up: not a   *)
(* number, zero, negative, signed, padded, and one more than MaxInt      *)
OddConcurrencyValues ==
    {<<"x">>, <<"2", "x">>, <<"0">>, <<"-", "1">>, <<"+", "2">>,
     <<"0", "2">>, MinIntDigits}

CheckerInit ==
    /\ prog = "checker"
    /\ CONCURRENCY \in ConcurrencyValues \cup OddConcurrencyValues
    /\ concurrency = 0
    /\ \E env \in SUBSET RequiredEnv :
          /\ CONCURRENCY \in OddConcurrencyValues => env = RequiredEnv
          /\ supplied = env \cup (IF CONCURRENCY = <<>> THEN {}
                                  ELSE {"CONCURRENCY"})
    /\ \E n \in 0..MaxServices, U \in SUBSET Unrelated :
          /\ U # {} => n <= MaxMixed /\ n + Cardinality(U) < MaxServices
          /\ supplied # RequiredEnv \cup {"CONCURRENCY"} =>
                n <= MaxMixed /\ U = {}
          /\ CONCURRENCY \in OddConcurrencyValues =>
                n <= MaxMixed /\ U = {}
          /\ CONCURRENCY \in ConcurrencyValues \ {<<>>} =>
                n * Decimal(CONCURRENCY) <= MaxWork
          /\ exists = {serviceName(Prefix, i - 1) : i \in 1..n} \cup U
    /\ services = <<>>
    /\ cpc = "env"

CheckerIdle ==
    /\ concurrency = 1
    /\ services = <<>>
    /\ cpc = "off"

CheckerLocals ==
    /\ listing = [done |-> FALSE, err |-> FALSE, found |-> <<>>]
    /\ spawned = 0
    /\ wpc = [i \in 1..N |-> "none"]
    /\ sem = 0
    /\ wg = 0
    /\ results = [i \in 1..N |-> zeroResult]
    /\ gets = <<>>
    /\ logged = 0
    /\ passed = 0
    /\ pingFailed = 0

----------------------------------------------------------------------------
(* orchestrator main.go *)

Ev(e, name) == [event |-> e, service |-> name]

(* status.FromError(err) and the code comparison *)
isAlreadyExistsNever(resp) == FALSE
isAlreadyExists(resp) == resp = "AlreadyExists"

isNotFoundNever(resp) == FALSE
isNotFound(resp) == resp = "NotFound"

(* what the Cloud Run API can answer to CreateService: an existing        *)
(* service id is refused with AlreadyExists, a new one is accepted (and   *)
(* the service resource then exists) or refused with another error        *)
CreateResponses(name) ==
    IF name \in exists THEN {"AlreadyExists"} ELSE {"ok", "Unavailable"}

(* DeleteService on a listed name: the listing is a snapshot, so the      *)
(* service may be gone by now                                              *)
DeleteResponses(name) == {"ok", "NotFound", "Unavailable"}

WaitResponses == {"ok", "error"}

(* the fire loop goes on with the next target after a refused submission *)
AbortAfterRefusal(i, n) == n
AfterRefusal(i, n) == i + 1

(* one iteration of deployServices' fire loop *)
(* buildServiceSpec: the Scaling of the service template *)
buildServiceSpec == [MinInstanceCount |-> 1, MaxInstanceCount |-> 1]

CreateService ==
    /\ prog = "orchestrator" /\ opc = "fire" /\ ~Cleanup /\ fi < Count
    /\ LET name == serviceName(Prefix, fi) IN
       \E resp \in CreateResponses(name) :
          /\ calls' = Append(calls, [api |-> "CreateService", name |-> name,
                                     resp |-> resp])
          /\ requests' = requests \cup {buildServiceSpec}
          /\ IF resp # "ok"
             THEN /\ IF isAlreadyExists(resp)
                     THEN /\ log' = Append(log, Ev("service_already_exists", name))
                          /\ skipped' = skipped + 1
                     ELSE /\ log' = Append(log, Ev("create_service_failed", name))
                          /\ UNCHANGED skipped
                  /\ fi' = AfterRefusal(fi, Count)
                  /\ UNCHANGED <<ops, exists>>
             ELSE /\ ops' = Append(ops, name)
                  /\ exists' = exists \cup {name}
                  /\ fi' = fi + 1
                  /\ UNCHANGED <<log, skipped>>
    /\ UNCHANGED <<idleForOrch, exitCode, Cleanup, VerifyOnly, execution,
                   Count, opc, serviceNames, wi, succeeded, failed, ret,
                   orun, prevLog>>

(* between the loops of deployServices: succeeded := skipped; failed := 0 *)
DeployFired ==
    /\ prog = "orchestrator" /\ opc = "fire" /\ ~Cleanup /\ fi >= Count
    /\ succeeded' = skipped
    /\ failed' = 0
    /\ opc' = "wait"
    /\ UNCHANGED <<idleForOrch, requests, log, exitCode, Cleanup, VerifyOnly,
                   execution, Count, exists, fi, serviceNames, ops, wi,
                   skipped, ret, calls, orun, prevLog>>

(* one iteration of deployServices' wait loop *)
(* the wait loop ranges over ops in the order of the appends *)
HandleNewestFirst(handles, i) == handles[Len(handles) - i]
Handle(handles, i) == handles[i + 1]

WaitCreate ==
    /\ prog = "orchestrator" /\ opc = "wait" /\ ~Cleanup /\ wi < Len(ops)
    /\ LET name == Handle(ops, wi) IN
       \E resp \in WaitResponses :
          /\ calls' = Append(calls, [api |-> "Wait", name |-> name,
                                     resp |-> resp])
          /\ IF resp # "ok"
             THEN /\ log' = Append(log, Ev("service_deploy_failed", name))
                  /\ failed' = failed + 1
                  /\ UNCHANGED succeeded
             ELSE /\ log' = Append(log, Ev("service_deployed", name))
                  /\ succeeded' = succeeded + 1
                  /\ UNCHANGED failed
    /\ wi' = wi + 1
    /\ UNCHANGED <<idleForOrch, requests, exitCode, Cleanup, VerifyOnly,
                   execution, Count, exists, opc, fi, serviceNames, ops,
                   skipped, ret, orun, prevLog>>

(* the deploy_summary event and the return value of deployServices *)
DeploySummary ==
    /\ prog = "orchestrator" /\ opc = "wait" /\ ~Cleanup /\ wi = Len(ops)
    /\ log' = Append(log, [event |-> "deploy_summary", succeeded |-> succeeded,
                           failed |-> failed, skipped |-> skipped,
                           total |-> Count])
    /\ ret' = IF failed > 0 THEN "err" ELSE "nil"
    /\ opc' = "returned"
    /\ UNCHANGED <<idleForOrch, requests, exitCode, Cleanup, VerifyOnly,
                   execution, Count, exists, fi, serviceNames, ops, wi,
                   skipped, succeeded, failed, calls, orun, prevLog>>

(* deleteServices returns at once when it.Next() fails *)
IgnoresListError(err) == FALSE
ReturnsOnListError(err) == err

(* deleteServices' listing loop: it.Next() returns the k-th service,     *)
(* iterator.Done after the last one, or an error at any point; the names *)
(* that pass the prefix test so far are in serviceNames                  *)
ListForDelete ==
    /\ prog = "orchestrator" /\ opc = "fire" /\ Cleanup /\ ret = "none"
    /\ serviceNames = <<>> /\ calls = <<>>
    /\ \E k \in 0..Len(RemoteList), err \in BOOLEAN :
          /\ ~err => k = Len(RemoteList)
          /\ calls' = Append(calls, [api |-> "ListServices", name |-> <<>>,
                                     resp |-> IF err THEN "error" ELSE "ok"])
          /\ serviceNames' = KeepPrefixed(SubSeq(RemoteList, 1, k),
                                          Prefix \o <<"-">>)
          /\ IF ReturnsOnListError(err)
             THEN /\ ret' = "err"
                  /\ opc' = "returned"
                  /\ UNCHANGED log
             ELSE /\ log' = Append(log, Ev("delete_start", <<>>))
                  /\ UNCHANGED <<ret, opc>>
    /\ UNCHANGED <<idleForOrch, requests, exitCode, Cleanup, VerifyOnly,
                   execution, Count, exists, fi, ops, wi, skipped, succeeded,
                   failed, orun, prevLog>>

(* one iteration of deleteServices' fire loop *)
DeleteService ==
    /\ prog = "orchestrator" /\ opc = "fire" /\ Cleanup
    /\ calls # <<>> /\ fi < Len(serviceNames)
    /\ LET name == serviceNames[fi + 1] IN
       \E resp \in DeleteResponses(name) :
          /\ calls' = Append(calls, [api |-> "DeleteService", name |-> name,
                                     resp |-> resp])
          /\ IF resp # "ok"
             THEN /\ IF isNotFound(resp)
                     THEN /\ log' = Append(log, Ev("service_not_found", name))
                          /\ exists' = exists \ {name}
                     ELSE /\ log' = Append(log, Ev("delete_service_failed", name))
                          /\ UNCHANGED exists
                  /\ fi' = AfterRefusal(fi, Len(serviceNames))
                  /\ UNCHANGED ops
             ELSE /\ ops' = Append(ops, name)
                  /\ fi' = fi + 1
                  /\ UNCHANGED <<log, exists>>
    /\ UNCHANGED <<idleForOrch, requests, exitCode, Cleanup, VerifyOnly,
                   execution, Count, opc, serviceNames, wi, skipped,
                   succeeded, failed, ret, orun, prevLog>>

(* between the loops of deleteServices: succeeded := 0; failed := 0 *)
DeleteFired ==
    /\ prog = "orchestrator" /\ opc = "fire" /\ Cleanup
    /\ calls # <<>> /\ fi >= Len(serviceNames)
    /\ succeeded' = 0
    /\ failed' = 0
    /\ opc' = "wait"
    /\ UNCHANGED <<idleForOrch, requests, log, exitCode, Cleanup, VerifyOnly,
                   execution, Count, exists, fi, serviceNames, ops, wi,
                   skipped, ret, calls, orun, prevLog>>

(* one iteration of deleteServices' wait loop *)
WaitDelete ==
    /\ prog = "orchestrator" /\ opc = "wait" /\ Cleanup /\ wi < Len(ops)
    /\ LET name == Handle(ops, wi) IN
       \E resp \in WaitResponses :
          /\ calls' = Append(calls, [api |-> "Wait", name |-> name,
                                     resp |-> resp])
          /\ IF resp # "ok"
             THEN /\ log' = Append(log, Ev("service_delete_failed", name))
                  /\ failed' = failed + 1
                  /\ UNCHANGED <<succeeded, exists>>
             ELSE /\ log' = Append(log, Ev("service_deleted", name))
                  /\ succeeded' = succeeded + 1
                  /\ exists' = exists \ {name}
                  /\ UNCHANGED failed
    /\ wi' = wi + 1
    /\ UNCHANGED <<idleForOrch, requests, exitCode, Cleanup, VerifyOnly,
                   execution, Count, opc, fi, serviceNames, ops, skipped, ret,
                   orun, prevLog>>

(* the delete_summary event and the return value of deleteServices *)
DeleteSummary ==
    /\ prog = "orchestrator" /\ opc = "wait" /\ Cleanup /\ wi = Len(ops)
    /\ log' = Append(log, [event |-> "delete_summary", succeeded |-> succeeded,
                           failed |-> failed, total |-> Len(serviceNames)])
    /\ ret' = IF failed > 0 THEN "err" ELSE "nil"
    /\ opc' = "returned"
    /\ UNCHANGED <<idleForOrch, requests, exitCode, Cleanup, VerifyOnly,
                   execution, Count, exists, fi, serviceNames, ops, wi,
                   skipped, succeeded, failed, calls, orun, prevLog>>

(* the flags main declares, and the ones its validation requires *)
Flags == {"project", "region", "network", "subnet", "target-url",
          "service-image", "checker-image", "count", "prefix"}

RequiredFlags ==
    {"project", "region", "network", "subnet", "target-url"}
        \cup (IF ~Cleanup /\ ~VerifyOnly THEN {"service-image"} ELSE {})
        \cup (IF ~Cleanup THEN {"checker-image"} ELSE {})

NoExecution == [wait |-> "none", FailedCount |-> 0, logs |-> "none"]

(* a switch that tests --verify-only before --cleanup                  *)
FirstStepVerifyFirst == IF VerifyOnly THEN "verify" ELSE "fire"

(* the mode switch of main: cleanup, verify-only, or deploy and verify *)
FirstStep == IF ~Cleanup /\ VerifyOnly THEN "verify" ELSE "fire"

(* main after flag.Parse: the missing_flags event and os.Exit(1) when a *)
(* required flag is empty                                              *)
ValidateFlags ==
    /\ prog = "orchestrator" /\ opc = "flags"
    /\ IF RequiredFlags \subseteq supplied
       THEN /\ opc' = FirstStep
            /\ UNCHANGED <<log, exitCode>>
       ELSE /\ log' = Append(log, Ev("missing_flags", <<>>))
            /\ exitCode' = 1
            /\ opc' = "exited"
    /\ UNCHANGED <<idleForOrch, requests, Cleanup, VerifyOnly, execution,
                   Count, exists, fi, serviceNames, ops, wi, skipped,
                   succeeded, failed, ret, calls, orun, prevLog>>

(* runChecker is called by runVerifyOnly, and by runDeployAndVerify when *)
(* deployServices returned nil                                           *)
CheckerDue ==
    \/ opc = "verify"
    \/ ~Cleanup /\ opc = "returned" /\ ret = "nil"

(* ensureCheckerJob: CreateJob, and UpdateJob when the job exists *)
EnsureJob ==
    /\ prog = "orchestrator" /\ CheckerDue
    /\ \E resp \in {"ok", "AlreadyExists", "Unavailable"},
          upd \in {"ok", "Unavailable"} :
          LET create == [api |-> "CreateJob", name |-> <<>>, resp |-> resp]
              update == [api |-> "UpdateJob", name |-> <<>>, resp |-> upd]
          IN  IF resp = "ok"
              THEN /\ upd = "ok"
                   /\ calls' = Append(calls, create)
                   /\ log' = Append(log, Ev("checker_job_created", <<>>))
                   /\ opc' = "run_job"
                   /\ ret' = "none"
              ELSE IF isAlreadyExists(resp)
              THEN /\ calls' = calls \o <<create, update>>
                   /\ IF upd = "ok"
                      THEN /\ log' = log \o <<Ev("checker_job_exists", <<>>),
                                              Ev("checker_job_updated", <<>>)>>
                           /\ opc' = "run_job"
                           /\ ret' = "none"
                      ELSE /\ log' = Append(log,
                                            Ev("checker_job_exists", <<>>))
                           /\ opc' = "finished"
                           /\ ret' = "err"
              ELSE /\ upd = "ok"
                   /\ calls' = Append(calls, create)
                   /\ opc' = "finished"
                   /\ ret' = "err"
                   /\ UNCHANGED log
    /\ UNCHANGED <<idleForOrch, requests, exitCode, Cleanup, VerifyOnly,
                   execution, Count, exists, fi, serviceNames, ops, wi,
                   skipped, succeeded, failed, orun, prevLog>>

(* runChecker after client.RunJob: an accepted run is waited for, a *)
(* refused one returns the error                                    *)
SkipsWait(resp) == IF resp = "ok" THEN "read_logs" ELSE "finished"
AfterRunJob(resp) == IF resp = "ok" THEN "wait_job" ELSE "finished"

(* runChecker: the checker_run_start event and client.RunJob *)
RunJob ==
    /\ prog = "orchestrator" /\ opc = "run_job"
    /\ \E resp \in {"ok", "Unavailable"} :
          /\ calls' = Append(calls, [api |-> "RunJob", name |-> <<>>,
                                     resp |-> resp])
          /\ opc' = AfterRunJob(resp)
          /\ ret' = IF resp = "ok" THEN ret ELSE "err"
    /\ log' = Append(log, Ev("checker_run_start", <<>>))
    /\ UNCHANGED <<idleForOrch, requests, exitCode, Cleanup, VerifyOnly,
                   execution, Count, exists, fi, serviceNames, ops, wi,
                   skipped, succeeded, failed, orun, prevLog>>

(* runOp.Wait returns when the execution is terminal, with the execution *)
(* or with an error; then the checker_run_complete event                 *)
WaitJob ==
    /\ prog = "orchestrator" /\ opc = "wait_job"
    /\ \E resp \in {"ok", "error"}, nfailed \in {0, 1} :
          /\ resp = "error" => nfailed = 0
          /\ calls' = Append(calls, [api |-> "WaitJob", name |-> <<>>,
                                     resp |-> resp])
          /\ execution' = [execution EXCEPT !.wait = resp,
                                            !.FailedCount = nfailed]
          /\ IF resp = "ok"
             THEN /\ log' = Append(log, [event |-> "checker_run_complete",
                                         service |-> <<>>,
                                         failed_count |-> nfailed])
                  /\ opc' = "read_logs"
                  /\ UNCHANGED ret
             ELSE /\ opc' = "finished"
                  /\ ret' = "err"
                  /\ UNCHANGED log
    /\ UNCHANGED <<idleForOrch, requests, exitCode, Cleanup, VerifyOnly,
                   Count, exists, fi, serviceNames, ops, wi, skipped,
                   succeeded, failed, orun, prevLog>>

(* the return value of runChecker after the log read *)
VerdictWithLogs(nfailed, logs) ==
    IF nfailed > 0 \/ logs = "failed" THEN "err" ELSE "nil"
Verdict(nfailed, logs) == IF nfailed > 0 THEN "err" ELSE "nil"

(* readCheckerLogs and the end of runChecker: the read fails when the   *)
(* logging client cannot be created or when the entry iterator fails; a *)
(* failed read is logged as log_read_failed at WARN                     *)
ReadLogs ==
    /\ prog = "orchestrator" /\ opc = "read_logs"
    /\ \E logs \in {"ok", "failed"}, client \in BOOLEAN :
          /\ logs = "ok" => client
          /\ calls' = IF client
                      THEN Append(calls, [api |-> "Entries", name |-> <<>>,
                                          resp |-> logs])
                      ELSE calls
          /\ execution' = [execution EXCEPT !.logs = logs]
          /\ log' = log \o <<Ev("waiting_for_logs", <<>>)>>
                        \o (IF client THEN <<Ev("reading_logs", <<>>)>>
                            ELSE <<>>)
                        \o (IF logs = "ok"
                            THEN <<Ev("logs_read", <<>>)>>
                            ELSE <<[event |-> "log_read_failed",
                                    service |-> <<>>,
                                    severity |-> "WARN"]>>)
          /\ ret' = Verdict(execution.FailedCount, logs)
    /\ opc' = "finished"
    /\ UNCHANGED <<idleForOrch, requests, exitCode, Cleanup, VerifyOnly,
                   Count, exists, fi, serviceNames, ops, wi, skipped,
                   succeeded, failed, orun, prevLog>>

(* deleteCheckerJob, called by runCleanup when deleteServices returned nil *)
DeleteCheckerJob ==
    /\ prog = "orchestrator" /\ Cleanup /\ opc = "returned" /\ ret = "nil"
    /\ \E resp \in {"ok", "NotFound", "Unavailable"} :
          /\ calls' = Append(calls, [api |-> "DeleteJob", name |-> <<>>,
                                     resp |-> resp])
          /\ IF resp = "ok"
             THEN /\ log' = log \o <<Ev("delete_checker_job", <<>>),
                                     Ev("checker_job_deleted", <<>>)>>
                  /\ ret' = "nil"
             ELSE IF isNotFound(resp)
             THEN /\ log' = log \o <<Ev("delete_checker_job", <<>>),
                                     Ev("checker_job_not_found", <<>>)>>
                  /\ ret' = "nil"
             ELSE /\ log' = Append(log, Ev("delete_checker_job", <<>>))
                  /\ ret' = "err"
    /\ opc' = "finished"
    /\ UNCHANGED <<idleForOrch, requests, exitCode, Cleanup, VerifyOnly,
                   execution, Count, exists, fi, serviceNames, ops, wi,
                   skipped, succeeded, failed, orun, prevLog>>

(* main returns: the process ends with status 0 *)
ExitOk ==
    /\ prog = "orchestrator" /\ opc = "finished" /\ ret = "nil"
    /\ exitCode' = 0
    /\ opc' = "exited"
    /\ UNCHANGED <<idleForOrch, requests, log, Cleanup, VerifyOnly, execution,
                   Count, exists, fi, serviceNames, ops, wi, skipped,
                   succeeded, failed, ret, calls, orun, prevLog>>

(* main: the phase returned an error: the fatal event and os.Exit(1) *)
Fatal ==
    /\ prog = "orchestrator" /\ opc \in {"returned", "finished"}
    /\ ret = "err"
    /\ log' = Append(log, Ev("fatal", <<>>))
    /\ exitCode' = 1
    /\ opc' = "exited"
    /\ UNCHANGED <<idleForOrch, requests, Cleanup, VerifyOnly, execution,
                   Count, exists, fi, serviceNames, ops, wi, skipped,
                   succeeded, failed, ret, calls, orun, prevLog>>

(* the operator runs the orchestrator again with the same flags, against *)
(* the project as the previous run left it (second runs are followed for *)
(* the counts up to MaxCount)                                             *)
Rerun ==
    /\ prog = "orchestrator" /\ orun < MaxRuns /\ Count <= MaxCount
    /\ opc = "exited"
    /\ orun' = orun + 1
    /\ prevLog' = SelectSeq(log, LAMBDA e : /\ "service" \in DOMAIN e
                                             /\ e.service # <<>>)
    /\ log' = <<>>
    /\ exitCode' = -1
    /\ opc' = "flags"
    /\ fi' = 0 /\ wi' = 0
    /\ serviceNames' = <<>> /\ ops' = <<>> /\ calls' = <<>>
    /\ skipped' = 0 /\ succeeded' = 0 /\ failed' = 0
    /\ ret' = "none"
    /\ execution' = NoExecution
    /\ requests' = {}
    /\ UNCHANGED <<idleForOrch, Cleanup, VerifyOnly, Count, exists>>

TargetNames == {serviceName(Prefix, i) : i \in 0..(MaxCount - 1)}

(* the documented default of the orchestrator's --concurrency flag; the *)
(* flag set of main declares no such flag                               *)
DefaultConcurrency == 10

(* a --count above the documented default, deployed into an empty project *)
LargeCount == DefaultConcurrency + 1

(* the flags a run may leave out (--count and --prefix are always given; *)
(* --cleanup never reads cfg.Count, its runs are given --count 0)        *)
OptionalInput == Flags \ {"count", "prefix"}

OrchInit ==
    /\ prog = "orchestrator"
    /\ Cleanup \in BOOLEAN
    /\ VerifyOnly \in BOOLEAN
    /\ Count \in (0 - MaxNegative)..MaxCount
    /\ supplied \in {Flags} \cup {Flags \ {f} : f \in OptionalInput}
    /\ CONCURRENCY = <<>>
    /\ \E T \in SUBSET TargetNames, U \in SUBSET Unrelated :
          /\ U # {} => Cleanup /\ Cardinality(T) <= MaxMixed
          /\ VerifyOnly => U = {} /\ Cardinality(T) <= MaxMixed
          /\ supplied # Flags => T = {} /\ U = {} /\ Count <= MaxMixed
          /\ Count < 0 => T = {} /\ U = {} /\ supplied = Flags
          /\ Cleanup => Count = 0
          /\ exists = T \cup U
    /\ opc = "flags"

OrchInitLarge ==
    /\ prog = "orchestrator"
    /\ Cleanup = FALSE
    /\ VerifyOnly = FALSE
    /\ Count = LargeCount
    /\ supplied = Flags
    /\ CONCURRENCY = <<>>
    /\ exists = {}
    /\ opc = "flags"

OrchIdle ==
    /\ Cleanup = FALSE
    /\ VerifyOnly = FALSE
    /\ Count = 0
    /\ opc = "off"

OrchLocals ==
    /\ fi = 0 /\ wi = 0
    /\ serviceNames = <<>> /\ ops = <<>> /\ calls = <<>>
    /\ skipped = 0 /\ succeeded = 0 /\ failed = 0
    /\ ret = "none"
    /\ execution = NoExecution
    /\ orun = 1
    /\ prevLog = <<>>

----------------------------------------------------------------------------
(* scripts/common.sh and scripts/deploy.sh *)

(* printf '%s-%03d' "$PREFIX" "$1" *)
service_name(index) ==
    Prefix \o <<"-">> \o ZeroPad(Digits(index), PadWidth)

(* --filter "metadata.name~^${PREFIX}-[0-9]+" *)
MatchesFilter(name) ==
    /\ HasPrefix(name, Prefix \o <<"-">>)
    /\ Len(name) >= Len(Prefix) + 2
    /\ name[Len(Prefix) + 2] \in DigitChars

(* what gcloud run services list prints, one name a line *)
RECURSIVE GcloudList(_, _)
GcloudList(i, n) ==
    IF i >= n THEN <<>>
    ELSE IF service_name(i) \in exists /\ MatchesFilter(service_name(i))
         THEN <<service_name(i)>> \o GcloudList(i + 1, n)
         ELSE GcloudList(i + 1, n)

InSeq(x, sq) == \E k \in 1..Len(sq) : sq[k] = x

(* deploy_services: the loop that builds all_names from existing *)
RECURSIVE NeedDeploy(_, _, _)
NeedDeploy(i, n, ex) ==
    IF i >= n THEN <<>>
    ELSE IF InSeq(service_name(i), ex)
         THEN NeedDeploy(i + 1, n, ex)
         ELSE <<service_name(i)>> \o NeedDeploy(i + 1, n, ex)

MinIgnored(a, b) == b
Min(a, b) == IF a < b THEN a ELSE b

(* deploy_services up to the first call of deploy_batch_list: the listing *)
(* (its failure is discarded by 2>/dev/null and prints nothing), the list *)
(* of names to deploy, and the early return when there is none            *)
Discover ==
    /\ prog = "deploy.sh" /\ spc = "deploy_services"
    /\ \E listed \in BOOLEAN :
          LET ex == IF listed THEN GcloudList(0, MaxCount) ELSE <<>>
              need == NeedDeploy(0, COUNT, ex)
          IN  /\ existing' = ex
              /\ all_names' = need
              /\ IF Len(need) = 0
                 THEN /\ spc' = "deployed"
                      /\ UNCHANGED service_names
                 ELSE /\ spc' = "batch"
                      /\ service_names' = need
    /\ FAILED_NAMES' = <<>>
    /\ bi' = 0
    /\ UNCHANGED <<idleForScript, requests, log, exitCode, exists, COUNT,
                   execs, BATCH_SIZE, retry, batch_end, bj, bk, batch_names,
                   proc, submitted, attempts, launched, history>>

(* a launch loop that starts one name before the batch *)
BatchStartOneBack == IF bi > 0 THEN bi - 1 ELSE bi

(* local j=$i *)
BatchStart == bi

(* deploy_batch_list: the head of an iteration of the outer loop *)
BatchBegin ==
    /\ prog = "deploy.sh" /\ spc = "batch" /\ bi < Len(service_names)
    /\ batch_end' = Min(bi + BATCH_SIZE, Len(service_names))
    /\ batch_names' = <<>>
    /\ bj' = BatchStart
    /\ bk' = 0
    /\ spc' = "launch"
    /\ UNCHANGED <<idleForScript, requests, log, exitCode, exists, COUNT,
                   execs, BATCH_SIZE, existing, all_names, retry,
                   service_names, FAILED_NAMES, bi, proc, submitted, attempts,
                   launched, history>>

(* gcloud run deploy "$name" ... & ; pids+=($!) ; sleep 1 *)
(* gcloud run deploy ... --min-instances 0 --max-instances 1 *)
DeployScaling == [MinInstanceCount |-> 0, MaxInstanceCount |-> 1]

Launch ==
    /\ prog = "deploy.sh" /\ spc = "launch" /\ bj < batch_end
    /\ LET name == service_names[bj + 1] IN
          /\ batch_names' = Append(batch_names, name)
          /\ proc' = [proc EXCEPT ![name] = "running"]
          /\ submitted' = [submitted EXCEPT ![name] = @ + 1]
          /\ launched' = Append(launched, name)
    /\ requests' = requests \cup {DeployScaling}
    /\ bj' = bj + 1
    /\ UNCHANGED <<idleForScript, log, exitCode, exists, COUNT, execs,
                   BATCH_SIZE, spc, existing, all_names, retry, service_names,
                   FAILED_NAMES, bi, batch_end, bk, attempts, history>>

(* a background gcloud run deploy terminates *)
Finish(name) ==
    /\ prog = "deploy.sh" /\ proc[name] = "running"
    /\ \E st \in {"exit0", "exit1"} :
          /\ proc' = [proc EXCEPT ![name] = st]
          /\ exists' = IF st = "exit0" THEN exists \cup {name} ELSE exists
    /\ UNCHANGED <<idleForScript, requests, log, exitCode, COUNT, execs,
                   BATCH_SIZE, spc, existing, all_names, retry, service_names,
                   FAILED_NAMES, bi, batch_end, bj, bk, batch_names,
                   submitted, attempts, launched, history>>

(* one iteration of "for pid in pids": wait "$pid" returns once the    *)
(* process has terminated                                               *)
Reap ==
    /\ prog = "deploy.sh" /\ spc = "launch" /\ bj >= batch_end
    /\ bk < Len(batch_names)
    /\ LET name == batch_names[bk + 1] IN
          /\ proc[name] \in {"exit0", "exit1"}
          /\ FAILED_NAMES' = IF proc[name] = "exit0" THEN FAILED_NAMES
                             ELSE Append(FAILED_NAMES, name)
          /\ attempts' = [attempts EXCEPT ![name] = Append(@, proc[name])]
          /\ proc' = [proc EXCEPT ![name] = "none"]
    /\ bk' = bk + 1
    /\ UNCHANGED <<idleForScript, requests, log, exitCode, exists, COUNT,
                   execs, BATCH_SIZE, spc, existing, all_names, retry,
                   service_names, bi, batch_end, bj, batch_names, submitted,
                   launched, history>>

(* i=$batch_end *)
BatchEnd ==
    /\ prog = "deploy.sh" /\ spc = "launch" /\ bj >= batch_end
    /\ bk = Len(batch_names)
    /\ bi' = batch_end
    /\ spc' = "batch"
    /\ UNCHANGED <<idleForScript, requests, log, exitCode, exists, COUNT,
                   execs, BATCH_SIZE, existing, all_names, retry,
                   service_names, FAILED_NAMES, batch_end, bj, bk,
                   batch_names, proc, submitted, attempts, launched, history>>

(* for pid in "${pids[@]}" with no pid under set -u: a bash older than  *)
(* 4.4 reports pids[@] as unbound and the script exits, a newer one runs *)
(* the loop zero times (BatchEnd)                                        *)
UnboundPids ==
    /\ prog = "deploy.sh" /\ spc = "launch" /\ bj >= batch_end
    /\ batch_names = <<>>
    /\ exitCode' = 1
    /\ spc' = "exited"
    /\ UNCHANGED <<idleForScript, requests, log, exists, COUNT, execs,
                   BATCH_SIZE, existing, all_names, retry, service_names,
                   FAILED_NAMES, bi, batch_end, bj, bk, batch_names, proc,
                   submitted, attempts, launched, history>>

(* deploy_batch_list returns *)
RoundEnd ==
    /\ prog = "deploy.sh" /\ spc = "batch" /\ bi >= Len(service_names)
    /\ history' = Append(history, [args |-> service_names,
                                   launched |-> launched,
                                   failed |-> FAILED_NAMES])
    /\ launched' = <<>>
    /\ spc' = "retry_check"
    /\ UNCHANGED <<idleForScript, requests, log, exitCode, exists, COUNT,
                   execs, BATCH_SIZE, existing, all_names, retry,
                   service_names, FAILED_NAMES, bi, batch_end, bj, bk,
                   batch_names, proc, submitted, attempts>>

(* the condition of deploy_services' retry loop *)
MayRetryOnceMore == Len(FAILED_NAMES) > 0 /\ retry <= max_retries
MayRetry == Len(FAILED_NAMES) > 0 /\ retry < max_retries

(* local retry_list=("${FAILED_NAMES[@]}") *)
RetryListAll == all_names
RetryList == FAILED_NAMES

(* one iteration of the retry loop, up to the call of deploy_batch_list *)
Retry ==
    /\ prog = "deploy.sh" /\ spc = "retry_check"
    /\ MayRetry
    /\ retry' = retry + 1
    /\ service_names' = RetryList
    /\ FAILED_NAMES' = <<>>
    /\ bi' = 0
    /\ spc' = "batch"
    /\ UNCHANGED <<idleForScript, requests, log, exitCode, exists, COUNT,
                   execs, BATCH_SIZE, existing, all_names, batch_end, bj, bk,
                   batch_names, proc, submitted, attempts, launched, history>>

(* the deploy summary; return 1 ends the script under set -e *)
DeployServicesEnd ==
    /\ prog = "deploy.sh" /\ spc = "retry_check"
    /\ ~MayRetry
    /\ LET total_failed == Len(FAILED_NAMES)
           total_ok == COUNT - total_failed
       IN  /\ log' = Append(log, [event |-> "Deploy summary",
                                  succeeded |-> total_ok,
                                  failed |-> total_failed, total |-> COUNT])
           /\ IF total_failed > 0
              THEN exitCode' = 1 /\ spc' = "exited"
              ELSE UNCHANGED exitCode /\ spc' = "deployed"
    /\ UNCHANGED <<idleForScript, requests, exists, COUNT, execs, BATCH_SIZE,
                   existing, all_names, retry, service_names, FAILED_NAMES,
                   bi, batch_end, bj, bk, batch_names, proc, submitted,
                   attempts, launched, history>>

(* the variables the steps after deploy_services leave alone *)
deployState == <<exists, COUNT, BATCH_SIZE, existing, all_names, retry,
                 service_names, FAILED_NAMES, bi, batch_end, bj, bk,
                 batch_names, proc, submitted, attempts, launched, history>>

(* fix_iam_bindings: every gcloud command in it is guarded by "|| true" *)
(* or by an if, so it always returns and changes no service            *)
FixIam ==
    /\ prog = "deploy.sh" /\ spc = "deployed"
    /\ spc' = "checker_job"
    /\ UNCHANGED <<idleForScript, requests, log, exitCode, deployState, execs>>

(* ensure_checker_job: describe, then update or create; a failing update *)
(* or create ends the script under set -e                               *)
EnsureCheckerJob ==
    /\ prog = "deploy.sh" /\ spc = "checker_job"
    /\ \E present \in BOOLEAN, st \in {"exit0", "exit1"} :
          IF st = "exit1"
          THEN /\ exitCode' = 1
               /\ spc' = "job_error"
               /\ UNCHANGED log
          ELSE /\ log' = Append(log, [event |-> IF present
                                                THEN "Checker job updated"
                                                ELSE "Checker job created"])
               /\ spc' = "run_checker"
               /\ UNCHANGED exitCode
    /\ UNCHANGED <<idleForScript, requests, deployState, execs>>

(* the two calls of run_checker in the main part of the script *)
RunCheckerCalls == 2

(* run_checker: nohup gcloud run jobs execute checker ... & (no --wait, *)
(* in the background) and then ok "Checker job completed"               *)
RunChecker ==
    /\ prog = "deploy.sh" /\ spc = "run_checker"
    /\ Len(execs) < RunCheckerCalls
    /\ execs' = Append(execs, "running")
    /\ log' = Append(log, [event |-> "Checker job completed"])
    /\ UNCHANGED <<idleForScript, requests, exitCode, spc, deployState>>

(* a checker job execution reaches a terminal state; this does not need *)
(* the script to be alive                                               *)
ExecutionEnds(k) ==
    /\ prog = "deploy.sh" /\ k \in 1..Len(execs) /\ execs[k] = "running"
    /\ \E st \in {"succeeded", "failed"} :
          execs' = [execs EXCEPT ![k] = st]
    /\ UNCHANGED <<idleForScript, requests, log, exitCode, spc, deployState>>

(* ok "Done": the script ends with status 0 *)
ScriptDone ==
    /\ prog = "deploy.sh" /\ spc = "run_checker"
    /\ Len(execs) = RunCheckerCalls
    /\ log' = Append(log, [event |-> "Done"])
    /\ exitCode' = 0
    /\ spc' = "done"
    /\ UNCHANGED <<idleForScript, requests, deployState, execs>>

ScriptInit ==
    /\ prog = "deploy.sh"
    /\ supplied = {}
    /\ CONCURRENCY = <<>>
    /\ COUNT \in 0..MaxCount
    /\ BATCH_SIZE \in 0..MaxBatch
    /\ exists \in SUBSET TargetNames
    /\ spc = "deploy_services"

ScriptIdle ==
    /\ COUNT = 0
    /\ BATCH_SIZE = 1
    /\ spc = "off"

ScriptLocals ==
    /\ existing = <<>> /\ all_names = <<>>
    /\ retry = 0
    /\ service_names = <<>> /\ FAILED_NAMES = <<>>
    /\ bi = 0 /\ batch_end = 0 /\ bj = 0 /\ bk = 0
    /\ batch_names = <<>>
    /\ proc = [n \in TargetNames |-> "none"]
    /\ submitted = [n \in TargetNames |-> 0]
    /\ attempts = [n \in TargetNames |-> <<>>]
    /\ launched = <<>>
    /\ history = <<>>
    /\ execs = <<>>

----------------------------------------------------------------------------
(* wipe.sh *)

(* the discovery: the listing (its failure is discarded by 2>/dev/null and *)
(* leaves SERVICES empty), the describe of the checker job (any failure of *)
(* it leaves CHECKER_EXISTS false), and the exit when nothing is to delete *)
WipeDiscover ==
    /\ prog = "wipe.sh" /\ spc = "discover"
    /\ \E listed \in BOOLEAN, described \in BOOLEAN :
          LET found == IF listed THEN GcloudList(0, MaxCount) ELSE <<>>
              job == jobExists /\ described
          IN  /\ listOk' = IF listed THEN "ok" ELSE "failed"
              /\ SERVICES' = found
              /\ CHECKER_EXISTS' = job
              /\ IF Len(found) = 0 /\ ~job /\ ~DELETE_REPO /\ ~DELETE_VM
                 THEN /\ log' = Append(log, [event |-> "Nothing to delete"])
                      /\ exitCode' = 0
                      /\ spc' = "exited"
                 ELSE /\ spc' = "confirm"
                      /\ UNCHANGED <<log, exitCode>>
    /\ UNCHANGED <<idleForWipe, exists, BATCH_SIZE, bi, batch_end, bj, bk,
                   batch_names, proc, DELETE_REPO, DELETE_VM, YES, confirm,
                   w_succeeded, w_failed, jobExists, deletes>>

(* what the user can type at the prompt; "EOF" is a closed standard input *)
Answers == {"y", "Y", "n", "", "yes", "EOF"}

(* [[ "$confirm" != [yY] ]] *)
ConfirmedUnlessNo(answer) == answer # "n"
Confirmed(answer) == answer \in {"y", "Y"}

(* the confirmation; read fails at end of input, which ends the script *)
(* under set -e                                                         *)
WipeConfirm ==
    /\ prog = "wipe.sh" /\ spc = "confirm"
    /\ IF YES
       THEN /\ spc' = "delete"
            /\ UNCHANGED <<log, exitCode, confirm>>
       ELSE \E answer \in Answers :
               /\ confirm' = answer
               /\ IF answer = "EOF"
                  THEN /\ exitCode' = 1
                       /\ spc' = "exited"
                       /\ UNCHANGED log
                  ELSE IF ~Confirmed(answer)
                  THEN /\ log' = Append(log, [event |-> "Aborted"])
                       /\ exitCode' = 0
                       /\ spc' = "exited"
                  ELSE /\ spc' = "delete"
                       /\ UNCHANGED <<log, exitCode>>
    /\ UNCHANGED <<idleForWipe, exists, BATCH_SIZE, bi, batch_end, bj, bk,
                   batch_names, proc, SERVICES, CHECKER_EXISTS, DELETE_REPO,
                   DELETE_VM, YES, w_succeeded, w_failed, jobExists, listOk,
                   deletes>>

(* if [ "${#SERVICES[@]}" -gt 0 ]: succeeded=0 failed=0 i=0 *)
WipeDeleteBegin ==
    /\ prog = "wipe.sh" /\ spc = "delete"
    /\ IF Len(SERVICES) > 0
       THEN /\ w_succeeded' = 0
            /\ w_failed' = 0
            /\ bi' = 0
            /\ spc' = "wbatch"
       ELSE /\ spc' = "job"
            /\ UNCHANGED <<w_succeeded, w_failed, bi>>
    /\ UNCHANGED <<idleForWipe, log, exitCode, exists, BATCH_SIZE,
                   batch_end, bj, bk, batch_names, proc, SERVICES,
                   CHECKER_EXISTS, DELETE_REPO, DELETE_VM, YES, confirm, jobExists,
                   listOk, deletes>>

(* the head of an iteration of the outer delete loop *)
WipeBatchBegin ==
    /\ prog = "wipe.sh" /\ spc = "wbatch" /\ bi < Len(SERVICES)
    /\ batch_end' = Min(bi + BATCH_SIZE, Len(SERVICES))
    /\ batch_names' = <<>>
    /\ bj' = bi
    /\ bk' = 0
    /\ spc' = "wlaunch"
    /\ UNCHANGED <<idleForWipe, log, exitCode, exists, BATCH_SIZE, bi,
                   proc, wipeVars>>

(* gcloud run services delete "$name" ... & ; pids+=($!) ; sleep 1 *)
WipeLaunch ==
    /\ prog = "wipe.sh" /\ spc = "wlaunch" /\ bj < batch_end
    /\ LET name == SERVICES[bj + 1] IN
          /\ batch_names' = Append(batch_names, name)
          /\ proc' = [proc EXCEPT ![name] = "running"]
          /\ deletes' = Append(deletes, [cmd |-> "services delete",
                                         name |-> name])
    /\ bj' = bj + 1
    /\ UNCHANGED <<idleForWipe, log, exitCode, exists, BATCH_SIZE, spc, bi,
                   batch_end, bk, SERVICES, CHECKER_EXISTS, DELETE_REPO,
                   DELETE_VM, YES, confirm, w_succeeded, w_failed, jobExists,
                   listOk>>

(* a background gcloud run services delete terminates *)
WipeFinish(name) ==
    /\ prog = "wipe.sh" /\ proc[name] = "running"
    /\ \E st \in {"exit0", "exit1"} :
          /\ proc' = [proc EXCEPT ![name] = st]
          /\ exists' = IF st = "exit0" THEN exists \ {name} ELSE exists
    /\ UNCHANGED <<idleForWipe, log, exitCode, BATCH_SIZE, spc, bi,
                   batch_end, bj, bk, batch_names, wipeVars>>

(* one iteration of "for pid in pids" *)
WipeReap ==
    /\ prog = "wipe.sh" /\ spc = "wlaunch" /\ bj >= batch_end
    /\ bk < Len(batch_names)
    /\ LET name == batch_names[bk + 1] IN
          /\ proc[name] \in {"exit0", "exit1"}
          /\ w_succeeded' = IF proc[name] = "exit0" THEN w_succeeded + 1
                            ELSE w_succeeded
          /\ w_failed' = IF proc[name] = "exit0" THEN w_failed
                         ELSE w_failed + 1
          /\ proc' = [proc EXCEPT ![name] = "none"]
    /\ bk' = bk + 1
    /\ UNCHANGED <<idleForWipe, log, exitCode, exists, BATCH_SIZE, spc, bi,
                   batch_end, bj, batch_names, SERVICES, CHECKER_EXISTS,
                   DELETE_REPO, DELETE_VM, YES, confirm, jobExists, listOk,
                   deletes>>

(* i=$batch_end *)
WipeBatchEnd ==
    /\ prog = "wipe.sh" /\ spc = "wlaunch" /\ bj >= batch_end
    /\ bk = Len(batch_names)
    /\ bi' = batch_end
    /\ spc' = "wbatch"
    /\ UNCHANGED <<idleForWipe, log, exitCode, exists, BATCH_SIZE,
                   batch_end, bj, bk, batch_names, proc, wipeVars>>

(* for pid in "${pids[@]}" with no pid under set -u, as in deploy.sh *)
WipeUnboundPids ==
    /\ prog = "wipe.sh" /\ spc = "wlaunch" /\ bj >= batch_end
    /\ batch_names = <<>>
    /\ exitCode' = 1
    /\ spc' = "exited"
    /\ UNCHANGED <<idleForWipe, log, exists, BATCH_SIZE, bi, batch_end, bj,
                   bk, batch_names, proc, wipeVars>>

(* the delete summary line *)
WipeSummary ==
    /\ prog = "wipe.sh" /\ spc = "wbatch" /\ bi >= Len(SERVICES)
    /\ log' = Append(log, [event |-> "Delete summary",
                           succeeded |-> w_succeeded, failed |-> w_failed,
                           total |-> Len(SERVICES)])
    /\ spc' = "job"
    /\ UNCHANGED <<idleForWipe, exitCode, exists, BATCH_SIZE, bi,
                   batch_end, bj, bk, batch_names, proc, wipeVars>>

(* the checker job: gcloud run jobs delete checker inside an if *)
WipeJob ==
    /\ prog = "wipe.sh" /\ spc = "job"
    /\ IF CHECKER_EXISTS
       THEN \E st \in {"exit0", "exit1"} :
               /\ deletes' = Append(deletes, [cmd |-> "jobs delete",
                                              name |-> <<>>])
               /\ jobExists' = IF st = "exit0" THEN FALSE ELSE jobExists
       ELSE UNCHANGED <<deletes, jobExists>>
    /\ spc' = "repo"
    /\ UNCHANGED <<idleForWipe, log, exitCode, exists, BATCH_SIZE, bi,
                   batch_end, bj, bk, batch_names, proc, SERVICES,
                   CHECKER_EXISTS, DELETE_REPO, DELETE_VM, YES, confirm,
                   w_succeeded, w_failed, listOk>>

(* the repository and the VM, then "Wipe complete": the script ends with *)
(* the status of its last command, ok                                    *)
WipeEnd ==
    /\ prog = "wipe.sh" /\ spc = "repo"
    /\ deletes' = deletes
          \o (IF DELETE_REPO
              THEN <<[cmd |-> "repositories delete", name |-> <<>>]>>
              ELSE <<>>)
          \o (IF DELETE_VM
              THEN <<[cmd |-> "instances delete", name |-> <<>>]>>
              ELSE <<>>)
    /\ log' = Append(log, [event |-> "Wipe complete"])
    /\ exitCode' = 0
    /\ spc' = "exited"
    /\ UNCHANGED <<idleForWipe, exists, BATCH_SIZE, bi, batch_end, bj, bk,
                   batch_names, proc, SERVICES, CHECKER_EXISTS,
                   DELETE_REPO, DELETE_VM, YES, confirm, w_succeeded, w_failed,
                   jobExists, listOk>>

WipeInit ==
    /\ prog = "wipe.sh"
    /\ supplied = {}
    /\ CONCURRENCY = <<>>
    /\ BATCH_SIZE \in 0..MaxBatch
    /\ exists \in SUBSET TargetNames
    /\ jobExists \in BOOLEAN
    /\ DELETE_REPO \in BOOLEAN
    /\ DELETE_VM \in BOOLEAN
    /\ YES \in BOOLEAN
    /\ COUNT = 0
    /\ spc = "discover"

WipeIdle ==
    /\ jobExists = FALSE
    /\ DELETE_REPO = FALSE
    /\ DELETE_VM = FALSE
    /\ YES = FALSE

WipeLocals ==
    /\ SERVICES = <<>>
    /\ CHECKER_EXISTS = FALSE
    /\ confirm = "unread"
    /\ w_succeeded = 0 /\ w_failed = 0
    /\ listOk = "none"
    /\ deletes = <<>>

----------------------------------------------------------------------------
----------------------------------------------------------------------------
(* the target generator taken alone: the loops of deployServices and of *)
(* deploy_services over the ordinals 0..count-1                          *)

(* the first ordinal that has more digits than the padding width *)
FirstWide == 10 ^ PadWidth

(* the counts the generator is run with: the small ones, and the ones *)
(* around the first wide ordinal                                      *)
GenCounts == (0..MaxCount) \cup {FirstWide, FirstWide + 1}

GenPrefixes == {Prefix, PrefixMesh, <<>>}

Generate ==
    /\ prog = "generator" /\ gpc = "start"
    /\ ids' = [k \in 1..gen.count |->
                  IF gen.fn = "serviceName"
                  THEN serviceName(gen.prefix, k - 1)
                  ELSE service_name(k - 1)]
    /\ gpc' = "done"
    /\ UNCHANGED <<prog, supplied, CONCURRENCY, requests, gen, log, exitCode, exists,
                   checkerVars, orchVars, scriptVars, wipeVars>>

GenInit ==
    /\ prog = "generator"
    /\ supplied = {}
    /\ CONCURRENCY = <<>>
    /\ exists = {}
    /\ \E fn \in {"serviceName", "service_name"}, p \in GenPrefixes,
          n \in GenCounts :
          /\ fn = "service_name" => p = Prefix
          /\ gen = [fn |-> fn, prefix |-> p, count |-> n]
    /\ gpc = "start"

GenIdle ==
    /\ gen = [fn |-> "none", prefix |-> <<>>, count |-> 0]
    /\ gpc = "off"

GenLocals == ids = <<>>

vars == <<prog, supplied, CONCURRENCY, genVars, requests, log, exitCode, exists,
          checkerVars, orchVars, scriptVars, wipeVars>>

Init ==
    /\ log = <<>>
    /\ exitCode = -1
    /\ requests = {}
    /\ \/ CheckerInit /\ OrchIdle /\ ScriptIdle /\ WipeIdle /\ GenIdle
       \/ OrchInit /\ CheckerIdle /\ ScriptIdle /\ WipeIdle /\ GenIdle
       \/ ScriptInit /\ CheckerIdle /\ OrchIdle /\ WipeIdle /\ GenIdle
       \/ WipeInit /\ CheckerIdle /\ OrchIdle /\ GenIdle
       \/ GenInit /\ CheckerIdle /\ OrchIdle /\ ScriptIdle /\ WipeIdle
    /\ GenLocals
    /\ CheckerLocals
    /\ OrchLocals
    /\ ScriptLocals
    /\ WipeLocals

Next ==
    \/ Generate
    \/ RequireEnv
    \/ ListServices
    \/ MainStart
    \/ Spawn
    \/ \E idx \in 1..N : Acquire(idx)
    \/ \E idx \in 1..N : Ping(idx)
    \/ \E idx \in 1..N : Release(idx)
    \/ \E idx \in 1..N : Done(idx)
    \/ WaitAll
    \/ LogResult
    \/ Summary
    \/ CreateService
    \/ DeployFired
    \/ WaitCreate
    \/ DeploySummary
    \/ ListForDelete
    \/ DeleteService
    \/ DeleteFired
    \/ WaitDelete
    \/ DeleteSummary
    \/ ValidateFlags
    \/ EnsureJob
    \/ RunJob
    \/ WaitJob
    \/ ReadLogs
    \/ DeleteCheckerJob
    \/ ExitOk
    \/ Fatal
    \/ Rerun
    \/ Discover
    \/ BatchBegin
    \/ Launch
    \/ \E name \in TargetNames : Finish(name)
    \/ Reap
    \/ BatchEnd
    \/ UnboundPids
    \/ RoundEnd
    \/ Retry
    \/ DeployServicesEnd
    \/ FixIam
    \/ EnsureCheckerJob
    \/ RunChecker
    \/ \E k \in 1..RunCheckerCalls : ExecutionEnds(k)
    \/ ScriptDone
    \/ WipeDiscover
    \/ WipeConfirm
    \/ WipeDeleteBegin
    \/ WipeBatchBegin
    \/ WipeLaunch
    \/ \E name \in TargetNames : WipeFinish(name)
    \/ WipeReap
    \/ WipeBatchEnd
    \/ WipeUnboundPids
    \/ WipeSummary
    \/ WipeJob
    \/ WipeEnd

Spec == Init /\ [][Next]_vars

(* the same runs, and a deployment of LargeCount services *)
InitLarge ==
    \/ Init
    \/ /\ log = <<>>
       /\ exitCode = -1
       /\ requests = {}
       /\ OrchInitLarge /\ CheckerIdle /\ ScriptIdle /\ WipeIdle /\ GenIdle
       /\ GenLocals
       /\ CheckerLocals
       /\ OrchLocals
       /\ ScriptLocals
       /\ WipeLocals

SpecLarge == InitLarge /\ [][Next]_vars

----------------------------------------------------------------------------
(* Properties *)

RECURSIVE Sum(_, _)
Sum(f, S) == IF S = {} THEN 0
             ELSE LET x == CHOOSE y \in S : TRUE IN f[x] + Sum(f, S \ {x})

Count1(sq, P(_)) == Cardinality({k \in 1..Len(sq) : P(sq[k])})

Pinging == {i \in 1..N : wpc[i] = "pinging"}

\* C1: in pingAll, whatever N, the bound C >= 1 and the interleaving of the
\* workers, at most C calls of pingService are in progress at any instant.
C1_AtMostCPings ==
    prog = "checker" => Cardinality(Pinging) <= concurrency

\* the bound is reached while another worker is blocked on the semaphore
C1_Witness ==
    /\ prog = "checker"
    /\ Cardinality(Pinging) = concurrency
    /\ \E i \in 1..N : wpc[i] = "ready"

PingEvents == SelectSeq(log, LAMBDA e : e.event = "ping_result")

\* C2: pingAll returns exactly N results, results[i] being the result of the
\* probe of services[i] whatever order the probes completed in, and main logs
\* the ping_result events in that same input order.
C2_ResultsInInputOrder ==
    (prog = "checker" /\ cpc \in {"report", "exited"} /\ N > 0) =>
        /\ Len(results) = N
        /\ \A i \in 1..N :
              /\ results[i].Service = services[i].Name
              /\ \E k \in 1..Len(gets) :
                    /\ gets[k].idx = i
                    /\ results[i] = pingService(services[i], gets[k].outcome)
        /\ Len(PingEvents) = logged
        /\ \A k \in 1..Len(PingEvents) :
              /\ PingEvents[k].service = services[k].Name
              /\ PingEvents[k].pass = results[k].Pass
              /\ PingEvents[k].status_code = results[k].StatusCode
        /\ cpc = "exited" => logged = N

\* the probes completed in another order than the input order, with
\* different outcomes, and every result has been logged
C2_Witness ==
    /\ prog = "checker" /\ cpc = "exited" /\ N >= 3
    /\ gets[1].idx = 3 /\ gets[2].idx = 1
    /\ gets[1].outcome # gets[2].outcome

CreateRefused(c) ==
    c.api = "CreateService" /\ c.resp \notin {"ok", "AlreadyExists"}
WaitFailed(c) == c.api = "Wait" /\ c.resp # "ok"
WaitOk(c) == c.api = "Wait" /\ c.resp = "ok"

\* C3: in deployServices, every target whose CreateService fails with an
\* error other than AlreadyExists, and every target whose Wait returns an
\* error, is counted in the summary's failed count and makes the deploy
\* phase end in failure.
C3_EveryFailureCounted ==
    (prog = "orchestrator" /\ ~Cleanup /\ opc \in {"returned", "exited"}) =>
        LET n == Count1(calls, CreateRefused) + Count1(calls, WaitFailed)
        IN  /\ failed = n
            /\ n > 0 => ret = "err"

IsSummary(e) == e.event \in {"deploy_summary", "delete_summary"}

DeleteNotFound(c) == c.api = "DeleteService" /\ c.resp = "NotFound"

(* the skipped count of a summary; delete_summary carries none, and the *)
(* NotFound submissions of the run are counted for it                   *)
SkippedOf(e) == IF "skipped" \in DOMAIN e THEN e.skipped
                ELSE Count1(calls, DeleteNotFound)

\* C4: for every deploy_summary and delete_summary the orchestrator emits,
\* total == succeeded + failed + skipped, each target being counted in
\* exactly one outcome (skipped = AlreadyExists on create, NotFound on
\* delete).
C4_SummaryAddsUp ==
    prog = "orchestrator" =>
        \A k \in 1..Len(log) :
            IsSummary(log[k]) =>
                log[k].total =
                    log[k].succeeded + log[k].failed + SkippedOf(log[k])

HasEvent(lg, e, name) ==
    \E k \in 1..Len(lg) : lg[k].event = e /\ lg[k].service = name

(* the previous run left every target of the run in place *)
PreviousRunLeftAll ==
    /\ orun >= 2
    /\ \A i \in 0..(Count - 1) :
          \/ HasEvent(prevLog, "service_deployed", serviceName(Prefix, i))
          \/ HasEvent(prevLog, "service_already_exists", serviceName(Prefix, i))

\* C5: running the create phase again over the same target ids, the
\* resources still being present, yields Skipped for every target: an
\* AlreadyExists submission is never counted as failed, is never waited on,
\* and the run ends with failed == 0.
C5_IdempotentCreate ==
    (prog = "orchestrator" /\ ~Cleanup) =>
        /\ \A k \in 1..Len(calls) :
              (calls[k].api = "CreateService"
                    /\ calls[k].resp = "AlreadyExists") =>
                 /\ HasEvent(log, "service_already_exists", calls[k].name)
                 /\ ~HasEvent(log, "create_service_failed", calls[k].name)
                 /\ ~InSeq(calls[k].name, ops)
                 /\ \A j \in 1..Len(calls) :
                       calls[j].api = "Wait" => calls[j].name # calls[k].name
        /\ opc \in {"wait", "returned", "exited"} =>
              failed <= Count1(calls, WaitFailed)
        /\ (PreviousRunLeftAll /\ opc \in {"returned", "exited"}) =>
              /\ skipped = IF Count < 0 THEN 0 ELSE Count
              /\ failed = 0
              /\ opc = "returned" => ret = "nil"
              /\ ops = <<>>
        /\ (opc \in {"returned", "exited"}
               /\ Count1(calls, WaitOk) = Count) =>
              /\ \A i \in 0..(Count - 1) :
                    HasEvent(log, "service_deployed", serviceName(Prefix, i))
              /\ succeeded = Count
              /\ skipped = 0
              /\ failed = 0

\* a second run over two or more targets that the first run all deployed
C5_Witness ==
    /\ prog = "orchestrator" /\ ~Cleanup /\ orun = 2 /\ Count >= 2
    /\ opc = "returned"
    /\ \A i \in 0..(Count - 1) :
          HasEvent(prevLog, "service_deployed", serviceName(Prefix, i))
    /\ skipped = Count

DeleteAccepted(c) == c.api = "DeleteService" /\ c.resp = "ok"

\* C6: in deleteServices a NotFound submission is recorded as Skipped:
\* deleting two discovered resources of which one is already absent yields
\* the summary succeeded=1, skipped=1, failed=0 and a successful phase.
C6_NotFoundIsSkipped ==
    (/\ prog = "orchestrator" /\ Cleanup /\ opc \in {"returned", "exited"}
     /\ Len(serviceNames) = 2
     /\ Count1(calls, DeleteNotFound) = 1
     /\ Count1(calls, DeleteAccepted) = 1
     /\ Count1(calls, WaitOk) = 1) =>
        /\ ret = "nil"
        /\ LET e == log[Len(log)] IN
              /\ e.event = "delete_summary"
              /\ e.succeeded = 1
              /\ e.failed = 0
              /\ "skipped" \in DOMAIN e
              /\ e.skipped = 1

CallNames(api) ==
    LET sel == SelectSeq(calls, LAMBDA c : c.api = api)
    IN  [k \in 1..Len(sel) |-> sel[k].name]

AcceptedNames(api) ==
    LET sel == SelectSeq(calls, LAMBDA c : c.api = api /\ c.resp = "ok")
    IN  [k \in 1..Len(sel) |-> sel[k].name]

NoDuplicates(sq) == \A a, b \in 1..Len(sq) : sq[a] = sq[b] => a = b

RoundsWith(name) ==
    Cardinality({r \in 1..Len(history) : InSeq(name, history[r].args)})

\* C7: a failure of one target never prevents the others from being
\* processed: in deployServices/deleteServices, in deploy_batch_list and in
\* pingAll every target of the input is submitted exactly once per round and
\* every accepted operation is waited on, whichever submissions or waits fail.
C7_FaultIsolation ==
    /\ (prog = "orchestrator" /\ ~Cleanup /\ ~VerifyOnly
            /\ RequiredFlags \subseteq supplied
            /\ opc \notin {"flags", "fire"}) =>
          CallNames("CreateService") =
             [k \in 1..Count |-> serviceName(Prefix, k - 1)]
    /\ (prog = "orchestrator" /\ Cleanup /\ opc \notin {"flags", "fire"}
            /\ ret # "err"
            /\ serviceNames # <<>>) =>
          CallNames("DeleteService") = serviceNames
    /\ (prog = "orchestrator" /\ opc \in {"returned", "exited"}
            /\ Len(calls) > 1) =>
          /\ CallNames("Wait") = ops
          /\ ops = AcceptedNames(IF Cleanup THEN "DeleteService"
                                 ELSE "CreateService")
    /\ prog = "deploy.sh" =>
          /\ \A r \in 1..Len(history) :
                /\ history[r].launched = history[r].args
                /\ NoDuplicates(history[r].args)
          /\ spc \in {"retry_check", "deployed", "exited"} =>
                \A n \in TargetNames :
                   /\ submitted[n] = RoundsWith(n)
                   /\ Len(attempts[n]) = submitted[n]
                   /\ proc[n] = "none"
    /\ (prog = "checker" /\ cpc \in {"report", "exited"} /\ N > 0) =>
          /\ Len(gets) = N
          /\ \A i \in 1..N : \E k \in 1..Len(gets) : gets[k].idx = i

\* the first target's submission is refused, the second one's wait fails,
\* and the third target is still created and waited on
C7_Witness ==
    /\ prog = "orchestrator" /\ ~Cleanup /\ opc = "exited" /\ Count = 3
    /\ calls[1].api = "CreateService" /\ calls[1].resp = "Unavailable"
    /\ \E k \in 1..Len(calls) :
          /\ calls[k].api = "Wait" /\ calls[k].resp = "error"
          /\ calls[k].name = serviceName(Prefix, 1)
    /\ \E k \in 1..Len(calls) :
          /\ calls[k].api = "Wait" /\ calls[k].resp = "ok"
          /\ calls[k].name = serviceName(Prefix, 2)

\* C8: in deploy.sh each retry round submits exactly the names that failed
\* in the immediately preceding round; a name that succeeded in any round,
\* or was skipped as already deployed, is never submitted again in that run.
C8_RetryOnlyFailed ==
    prog = "deploy.sh" =>
        /\ \A r \in 2..Len(history) :
              /\ history[r].args = history[r - 1].failed
              /\ history[r].launched = history[r - 1].failed
        /\ (Len(history) >= 1 /\ spc \in {"batch", "launch"}) =>
              /\ service_names = history[Len(history)].failed
              /\ \A k \in 1..Len(launched) : launched[k] = service_names[k]
        /\ \A n \in TargetNames :
              /\ \A k \in 1..(Len(attempts[n]) - 1) : attempts[n][k] = "exit1"
              /\ (attempts[n] # <<>>
                     /\ attempts[n][Len(attempts[n])] = "exit0") =>
                    /\ proc[n] = "none"
                    /\ submitted[n] = Len(attempts[n])
              /\ InSeq(n, existing) => submitted[n] = 0

\* a retry round ran over a proper part of the first round's names
C8_Witness ==
    /\ prog = "deploy.sh" /\ Len(history) >= 2
    /\ Len(history[1].args) >= 2
    /\ Len(history[1].failed) = 1
    /\ history[2].launched = history[1].failed
    /\ existing # <<>>

AlwaysFailing ==
    {n \in TargetNames :
        /\ attempts[n] # <<>>
        /\ \A k \in 1..Len(attempts[n]) : attempts[n][k] = "exit1"}

\* C9: in deploy.sh, when some targets fail on every attempt, the retry
\* controller stops after max_retries (3) retry rounds, attempts no further
\* round, and reports a failed count equal to the number of always-failing
\* targets.
C9_RoundCap ==
    prog = "deploy.sh" =>
        /\ retry <= max_retries
        /\ Len(history) <= max_retries + 1
        /\ spc \in {"deployed", "exited"} /\ log # <<>> =>
              /\ log[Len(log)].failed = Cardinality(AlwaysFailing)
              /\ log[Len(log)].failed > 0 =>
                    /\ retry = max_retries
                    /\ Len(history) = max_retries + 1
                    /\ \A n \in AlwaysFailing :
                          Len(attempts[n]) = max_retries + 1

\* one target failed in every round while another one succeeded
C9_Witness ==
    /\ prog = "deploy.sh" /\ spc = "exited"
    /\ Len(FAILED_NAMES) = 1
    /\ Len(all_names) >= 2
    /\ retry = max_retries

\* C10: over a whole deploy phase of N targets no target is submitted more
\* than 1 + max_retries (= 4) times, so at most N x (1 + max_retries) deploy
\* operations are issued.
C10_SubmissionBound ==
    prog = "deploy.sh" =>
        /\ \A n \in TargetNames : submitted[n] <= 1 + max_retries
        /\ Sum(submitted, TargetNames) <= COUNT * (1 + max_retries)

\* every target of the phase was submitted 1 + max_retries times
C10_Witness ==
    /\ prog = "deploy.sh" /\ COUNT >= 2
    /\ Len(all_names) = COUNT
    /\ \A k \in 1..COUNT : submitted[all_names[k]] = 1 + max_retries

FailedFirst ==
    {n \in TargetNames : attempts[n] # <<>> /\ attempts[n][1] = "exit1"}

NoSecondFailure ==
    \A n \in TargetNames :
        \A k \in 2..Len(attempts[n]) : attempts[n][k] = "exit0"

\* C11: in deploy.sh, when K of the N targets fail on their first attempt
\* and succeed on their second, the deploy phase ends after at most 2 rounds
\* reporting succeeded = N and failed = 0; exactly those K targets were
\* submitted a second time, once each, and the others never again.
C11_RetryConverges ==
    (/\ prog = "deploy.sh" /\ spc \in {"deployed", "exited"}
     /\ log # <<>> /\ NoSecondFailure) =>
        /\ Len(history) <= 2
        /\ spc = "deployed" /\ exitCode = -1
        /\ log[Len(log)].succeeded = COUNT
        /\ log[Len(log)].failed = 0
        /\ \A n \in TargetNames :
              /\ n \in FailedFirst => submitted[n] = 2
              /\ n \notin FailedFirst => submitted[n] <= 1
        /\ Len(history) = 2 =>
              /\ Len(history[2].launched) = Cardinality(FailedFirst)
              /\ \A n \in TargetNames :
                    InSeq(n, history[2].launched) <=> n \in FailedFirst

\* one of three targets failed once and then succeeded; two never failed
C11_Witness ==
    /\ prog = "deploy.sh" /\ spc = "deployed" /\ log # <<>>
    /\ COUNT = 3 /\ Len(all_names) = 3
    /\ NoSecondFailure
    /\ Cardinality(FailedFirst) = 1
    /\ Len(history) = 2

(* create operations accepted by the API whose Wait has not returned *)
Unresolved == Len(ops) - wi

\* C12: in the orchestrator's deployServices the number of create
\* operations submitted and not yet complete never exceeds the concurrency
\* bound (--concurrency, default 10), whatever the target count.
C12_BoundedSubmissions ==
    (prog = "orchestrator" /\ ~Cleanup) => Unresolved <= DefaultConcurrency

(* background processes launched and not yet reaped by wait *)
InFlight == {n \in TargetNames : proc[n] # "none"}

\* C13: in deploy.sh and wipe.sh the batches run strictly one after the
\* other: no operation of a batch is started before every operation of the
\* batch before it has terminated and been reaped, so at most BATCH_SIZE
\* operations are in flight at any instant.
C13_BatchesSequential ==
    prog \in {"deploy.sh", "wipe.sh"} =>
        /\ Cardinality(InFlight) <= BATCH_SIZE
        /\ \A n \in InFlight : InSeq(n, batch_names)
        /\ Len(batch_names) <= BATCH_SIZE
        /\ spc \in {"batch", "wbatch", "retry_check", "deployed", "exited",
                    "job", "repo"} => InFlight = {}

\* wipe.sh is in its second batch with a full batch in flight
C13_Witness ==
    /\ prog = "wipe.sh" /\ spc = "wlaunch"
    /\ bi > 0 /\ BATCH_SIZE = 2 /\ Len(SERVICES) > BATCH_SIZE
    /\ Cardinality(InFlight) = 1
    /\ \E n \in InFlight : proc[n] = "running"

(* the prefix, "-", and a suffix of decimal digits *)
IsDeployedName(name) ==
    /\ HasPrefix(name, Prefix \o <<"-">>)
    /\ Len(name) > Len(Prefix) + 1
    /\ \A k \in (Len(Prefix) + 2)..Len(name) : name[k] \in DigitChars

Discovered(name) == \E i \in 1..Len(services) : services[i].Name = name

\* C14: discovery (the checker's listServices, the listing of the
\* orchestrator's deleteServices) returns a service if and only if its
\* short name is the prefix, "-" and a numeric suffix; a service that only
\* shares the textual prefix is never probed and never deleted.
C14_DiscoveryFilter ==
    /\ (prog = "checker" /\ listing.done /\ ~listing.err) =>
          /\ \A n \in exists : Discovered(n) <=> IsDeployedName(n)
          /\ \A k \in 1..Len(gets) :
                IsDeployedName(services[gets[k].idx].Name)
    /\ (prog = "orchestrator" /\ Cleanup) =>
          /\ (Len(calls) = 1 /\ calls[1].resp = "ok") =>
                \A n \in exists : InSeq(n, serviceNames) <=> IsDeployedName(n)
          /\ \A k \in 1..Len(calls) :
                calls[k].api = "DeleteService" => IsDeployedName(calls[k].name)

\* C15: when the listing fails at any point, also after some services were
\* returned, the checker issues no probe and exits non-zero, and the
\* orchestrator's cleanup issues no DeleteService and fails: what was
\* discovered before the failure is never used.
C15_ListFailureAborts ==
    /\ (prog = "checker" /\ listing.done /\ listing.err) =>
          /\ gets = <<>>
          /\ services = <<>>
          /\ \A i \in DOMAIN wpc : wpc[i] = "none"
          /\ cpc = "exited" /\ exitCode = 1
    /\ (prog = "orchestrator" /\ Cleanup /\ calls # <<>>
            /\ calls[1].resp = "error") =>
          /\ Len(calls) = 1
          /\ ops = <<>>
          /\ ret = "err"
          /\ opc \in {"returned", "exited"}
          /\ opc = "exited" => exitCode = 1

\* the checker's listing failed after it had returned two matching services
C15_Witness ==
    /\ prog = "checker" /\ listing.done /\ listing.err
    /\ Len(listing.found) >= 2
    /\ exitCode = 1

\* the cleanup's listing failed after it had returned two matching services
C15_WitnessCleanup ==
    /\ prog = "orchestrator" /\ Cleanup /\ calls # <<>>
    /\ calls[1].resp = "error"
    /\ Len(serviceNames) >= 2
    /\ opc = "exited"

\* C16: in wipe.sh a failure of the service-listing command is fatal: the
\* script does not take it for an empty discovery, issues no delete and
\* exits non-zero.
C16_WipeListFailureFatal ==
    (prog = "wipe.sh" /\ listOk = "failed") =>
        /\ deletes = <<>>
        /\ spc = "exited"
        /\ exitCode = 1

(* the result pingAll stored for the k-th GET *)
ResultOf(k) == results[gets[k].idx]

\* C17 (as stated): pingService classifies a transport error as pass=false
\* with the transport message and status code 0; a response whose status
\* is not 200 as pass=false with the status recorded and no error; a
\* response with status 200 as pass=true with the body captured.
C17_ClassificationAsStated ==
    prog = "checker" =>
        \A k \in 1..Len(gets) :
            LET o == gets[k].outcome
                r == ResultOf(k)
            IN  /\ o.kind = "transport" =>
                      ~r.Pass /\ r.Error = "transport" /\ r.StatusCode = 0
                /\ (o.kind = "response" /\ o.status # StatusOK) =>
                      ~r.Pass /\ r.StatusCode = o.status /\ r.Error = ""
                /\ (o.kind = "response" /\ o.status = StatusOK) =>
                      r.Pass /\ r.Body = "body"

\* C17 (amended): a transport error gives pass=false, the transport message
\* and status code 0; a response whose body cannot be read gives
\* pass=false, the status recorded and a read error, whatever the status; a
\* response whose body was read gives the status recorded, the body
\* captured, no error, and pass exactly when the status is 200.
C17_Classification ==
    prog = "checker" =>
        \A k \in 1..Len(gets) :
            LET o == gets[k].outcome
                r == ResultOf(k)
            IN  /\ r.Service = services[gets[k].idx].Name
                /\ r.URL = gets[k].url
                /\ o.kind = "transport" =>
                      /\ ~r.Pass /\ r.Error = "transport"
                      /\ r.StatusCode = 0 /\ r.Body = ""
                /\ (o.kind = "response" /\ ~o.readOk) =>
                      /\ ~r.Pass /\ r.StatusCode = o.status
                      /\ r.Error = "failed to read response body"
                      /\ r.Body = ""
                /\ (o.kind = "response" /\ o.readOk) =>
                      /\ r.Pass <=> o.status = StatusOK
                      /\ r.StatusCode = o.status
                      /\ r.Error = "" /\ r.Body = "body"

\* one run met a transport error, a status 500 and an unreadable body
C17_Witness ==
    /\ prog = "checker" /\ cpc = "report"
    /\ \E a, b, c \in 1..Len(gets) :
          /\ gets[a].outcome.kind = "transport"
          /\ gets[b].outcome.kind = "response" /\ gets[b].outcome.readOk
          /\ gets[b].outcome.status # StatusOK
          /\ gets[c].outcome.kind = "response" /\ ~gets[c].outcome.readOk

GetsOf(i) == {k \in 1..Len(gets) : gets[k].idx = i}

\* C18: the checker issues exactly one GET /ping per discovered service per
\* run: a probe that failed (transport error, status other than 200) is not
\* retried and no service is probed twice.
C18_OneGetPerService ==
    prog = "checker" =>
        /\ \A i \in 1..N : Cardinality(GetsOf(i)) <= 1
        /\ \A k \in 1..Len(gets) :
              /\ gets[k].idx \in 1..N
              /\ gets[k].url = services[gets[k].idx].URI
                                  \o <<"/", "p", "i", "n", "g">>
        /\ cpc \in {"report", "exited"} =>
              \A i \in 1..N : Cardinality(GetsOf(i)) = 1

\* a finished run of three services in which two probes failed
C18_Witness ==
    /\ prog = "checker" /\ cpc = "exited" /\ N = 3
    /\ Len(gets) = 3
    /\ \E a, b \in 1..3 :
          /\ gets[a].outcome.kind = "transport"
          /\ gets[b].outcome.kind = "response"
          /\ gets[b].outcome.status # StatusOK

SummaryEvents == {k \in 1..Len(log) : log[k].event = "summary"}

PassedServices == {i \in 1..Len(results) : results[i].Pass}

\* C19: in every checker run that emits a summary event, total is the
\* number of discovered services and total = passed + failed, each service
\* being counted in exactly one of the two (3 services of which one answers
\* 500 give total=3, passed=2, failed=1).
C19_CheckerSummary ==
    prog = "checker" =>
        /\ cpc = "report" => passed + pingFailed = logged
        /\ \A k \in SummaryEvents :
              /\ k = Len(log)
              /\ log[k].total = N
              /\ log[k].total = Len(listing.found)
              /\ log[k].total = log[k].passed + log[k].failed
              /\ log[k].passed = Cardinality(PassedServices)
              /\ log[k].failed = N - Cardinality(PassedServices)
              /\ Cardinality({j \in 1..Len(log) :
                                 log[j].event = "ping_result"}) = N

\* three discovered services, the third one answered 500
C19_Witness ==
    /\ prog = "checker" /\ SummaryEvents # {}
    /\ N = 3
    /\ results[1].Pass /\ results[2].Pass
    /\ results[3].StatusCode = 500 /\ results[3].Error = ""
    /\ results[3].Service = serviceName(Prefix, 2)
    /\ log[Len(log)] = [event |-> "summary", total |-> 3, passed |-> 2,
                        failed |-> 1]

ListedOk == listing.done /\ ~listing.err

\* C20 (as stated): for every successful discovery result the checker exits
\* with code 0 if and only if no discovered service's probe failed, and
\* non-zero otherwise.
C20_ExitCodeAsStated ==
    (prog = "checker" /\ ListedOk /\ cpc = "exited") =>
        (exitCode = 0 <=> \A i \in 1..N : results[i].Pass)

\* C20 (amended): for every successful discovery that returned at least one
\* service the checker exits with code 0 if and only if no probe failed,
\* and with code 1 otherwise; when the discovery returned no service it
\* logs no_services, probes nothing, emits no summary and exits with code 1.
C20_ExitCode ==
    (prog = "checker" /\ ListedOk /\ cpc = "exited") =>
        /\ N > 0 =>
              /\ exitCode = 0 <=> \A i \in 1..N : results[i].Pass
              /\ exitCode = 0 <=> log[Len(log)].failed = 0
              /\ exitCode \in {0, 1}
              /\ SummaryEvents = {Len(log)}
        /\ N = 0 =>
              /\ exitCode = 1
              /\ gets = <<>>
              /\ SummaryEvents = {}
              /\ log[Len(log)].event = "no_services"

\* a run of three services that all passed ended with exit code 0
C20_Witness ==
    /\ prog = "checker" /\ ListedOk /\ cpc = "exited"
    /\ N = 3
    /\ \A i \in 1..N : results[i].Pass
    /\ exitCode = 0

\* a successful discovery of no service ended with exit code 1
C20_WitnessEmpty ==
    /\ prog = "checker" /\ ListedOk /\ cpc = "exited"
    /\ N = 0 /\ exitCode = 1

CompletedReports ==
    Cardinality({k \in 1..Len(log) : log[k].event = "Checker job completed"})

\* C21: deploy.sh's verify step executes the checker job exactly once per
\* run and waits for it: "Checker job completed" is reported, and the
\* script ends, only after that execution has reached a terminal state.
C21_CheckerRunOnceAwaited ==
    prog = "deploy.sh" =>
        /\ Len(execs) <= 1
        /\ \A k \in 1..CompletedReports :
              k <= Len(execs) /\ execs[k] # "running"
        /\ spc = "done" =>
              /\ Len(execs) = 1
              /\ execs[1] # "running"

JobSubmitted ==
    \E k \in 1..Len(calls) : calls[k].api = "RunJob" /\ calls[k].resp = "ok"

WaitReturned == \E k \in 1..Len(calls) : calls[k].api = "WaitJob"

RunCheckerReturned == ~Cleanup /\ opc \in {"finished", "exited"}

\* C22: once runChecker has submitted the job it blocks until the execution
\* is terminal: checker_run_complete is logged, the logs are read and the
\* verdict is returned only after Wait has returned, and for a submitted job
\* the verdict is failure exactly when Wait returned an error or the
\* execution's FailedCount is above zero.
C22_RunCheckerAwaitsExecution ==
    prog = "orchestrator" =>
        /\ HasEvent(log, "checker_run_complete", <<>>) =>
              /\ WaitReturned
              /\ execution.wait = "ok"
        /\ \A k \in 1..Len(calls) :
              /\ calls[k].api = "Entries" =>
                    \E j \in 1..(k - 1) :
                        calls[j].api = "WaitJob" /\ calls[j].resp = "ok"
              /\ calls[k].api = "WaitJob" =>
                    /\ k > 1
                    /\ calls[k - 1].api = "RunJob"
                    /\ calls[k - 1].resp = "ok"
        /\ HasEvent(log, "waiting_for_logs", <<>>) =>
              HasEvent(log, "checker_run_complete", <<>>)
        /\ (JobSubmitted /\ RunCheckerReturned) =>
              /\ WaitReturned
              /\ ret = "err" <=>
                    (execution.wait = "error" \/ execution.FailedCount > 0)
              /\ ret \in {"err", "nil"}

\* the execution ended with a failed task and runChecker returned an error
C22_Witness ==
    /\ prog = "orchestrator" /\ opc = "finished"
    /\ JobSubmitted
    /\ execution.wait = "ok" /\ execution.FailedCount > 0
    /\ execution.logs = "ok"
    /\ ret = "err"

\* C23: in runChecker the verdict depends only on the execution's wait
\* result and FailedCount: whether the log read fails or succeeds, the
\* return value is the one FailedCount gives, and a failed log read adds
\* only the log_read_failed event at WARN.
C23_VerdictIgnoresLogRead ==
    (prog = "orchestrator" /\ RunCheckerReturned
        /\ execution.logs \in {"ok", "failed"}) =>
        /\ ret = IF execution.FailedCount > 0 THEN "err" ELSE "nil"
        /\ LET warns == SelectSeq(log, LAMBDA e : e.event = "log_read_failed")
           IN  /\ Len(warns) = IF execution.logs = "failed" THEN 1 ELSE 0
               /\ \A k \in 1..Len(warns) : warns[k].severity = "WARN"
        /\ execution.logs = "failed" => ~HasEvent(log, "logs_read", <<>>)
        /\ (execution.logs = "failed" /\ ret = "nil") =>
              ~HasEvent(log, "fatal", <<>>)

\* the log read failed, no task failed, and runChecker returned nil
C23_Witness ==
    /\ prog = "orchestrator" /\ opc = "finished"
    /\ execution.wait = "ok" /\ execution.FailedCount = 0
    /\ execution.logs = "failed"
    /\ ret = "nil"

\* C24: wipe.sh's exit code reflects its delete summary: once the summary
\* is printed the script exits 0 exactly when no service deletion failed,
\* and with a non-zero status whenever failed > 0.
C24_WipeExitReflectsSummary ==
    (prog = "wipe.sh" /\ spc = "exited"
        /\ \E k \in 1..Len(log) : log[k].event = "Delete summary") =>
        /\ exitCode = 0 <=> w_failed = 0
        /\ w_failed > 0 => exitCode # 0

RemoteCallIssued ==
    \/ prog = "checker" /\ (listing.done \/ Len(gets) > 0)
    \/ prog = "orchestrator" /\ Len(calls) > 0

(* project, region, prefix, target count and concurrency, as each program *)
(* names them (the checker takes no target count)                         *)
StatedRequired ==
    IF prog = "checker"
    THEN {"PROJECT_ID", "REGION", "PREFIX", "CONCURRENCY"}
    ELSE {"project", "region", "prefix", "count", "concurrency"}

\* C25: the checker and the orchestrator issue no remote call (listing,
\* create, delete, job run, probe) unless project, region, prefix, target
\* count and concurrency were all supplied; a run that lacks one of them
\* ends with a non-zero exit status before any remote call.
C25_NoRemoteCallWithoutConfig ==
    prog \in {"checker", "orchestrator"} =>
        /\ RemoteCallIssued => StatedRequired \subseteq supplied
        /\ (~(StatedRequired \subseteq supplied)
              /\ (cpc = "exited" \/ opc = "exited")) =>
              /\ exitCode # 0
              /\ ~RemoteCallIssued

Suffix(k) == SubSeq(ids[k], Len(gen.prefix) + 2, Len(ids[k]))

(* every id is the prefix, a dash and decimal digits that denote the *)
(* ordinal; the ids number count and are pairwise distinct           *)
WellFormedIds ==
    /\ Len(ids) = gen.count
    /\ Cardinality({ids[k] : k \in 1..Len(ids)}) = gen.count
    /\ \A k \in 1..Len(ids) :
          /\ SubSeq(ids[k], 1, Len(gen.prefix) + 1) = gen.prefix \o <<"-">>
          /\ Suffix(k) # <<>>
          /\ \A d \in 1..Len(Suffix(k)) : Suffix(k)[d] \in DigitChars
          /\ Decimal(Suffix(k)) = k - 1

\* C26 as stated: for every count N >= 0 and prefix P the generator yields
\* exactly N pairwise distinct ids, each of them P, a dash and the ordinal
\* zero-padded to exactly 3 digits.
C26_ThreeDigitIdsAsStated ==
    (prog = "generator" /\ gpc = "done") =>
        /\ WellFormedIds
        /\ \A k \in 1..Len(ids) : Len(Suffix(k)) = PadWidth

\* C26: for every count N >= 0 and prefix P the generator yields exactly N
\* pairwise distinct ids, each of them P, a dash and the ordinal in decimal,
\* zero-padded to at least 3 digits: exactly 3 digits for the ordinals
\* below 1000, and the unpadded decimal from 1000 on; the ids are a function
\* of N and P.
C26_PaddedIds ==
    (prog = "generator" /\ gpc = "done") =>
        /\ WellFormedIds
        /\ \A k \in 1..Len(ids) :
              /\ Len(Suffix(k)) >= PadWidth
              /\ k - 1 < FirstWide => Len(Suffix(k)) = PadWidth
              /\ k - 1 >= FirstWide => Suffix(k)[1] # "0"
        /\ \A k \in 1..Len(ids) :
              ids[k] = IF gen.fn = "serviceName"
                       THEN serviceName(gen.prefix, k - 1)
                       ELSE service_name(k - 1)

\* the generator ran over a count that reaches a four-digit ordinal
C26_Witness ==
    /\ prog = "generator" /\ gpc = "done"
    /\ gen.count > FirstWide
    /\ Len(ids) = gen.count
    /\ Len(Suffix(gen.count)) > PadWidth

DeployPhaseOver ==
    /\ prog = "orchestrator" /\ ~Cleanup /\ ~VerifyOnly
    /\ RequiredFlags \subseteq supplied
    /\ opc \notin {"flags", "fire", "wait"}

\* C27: for a negative count the deploy phase fails (with an InvalidArgument
\* error) and issues no create request.
C27_NegativeCountRejected ==
    (DeployPhaseOver /\ Count < 0) =>
        /\ \A k \in 1..Len(calls) : calls[k].api # "CreateService"
        /\ opc = "returned" => ret = "err"
        /\ opc = "exited" => exitCode # 0
        /\ \A k \in 1..Len(calls) : calls[k].api \notin {"CreateJob", "RunJob"}

\* C28: every service create/deploy request issued by the orchestrator or by
\* deploy.sh sets the minimum instance count to exactly 1 and the maximum
\* to 1.
C28_MinInstancesOne ==
    prog \in {"orchestrator", "deploy.sh"} =>
        \A r \in requests : r.MinInstanceCount = 1 /\ r.MaxInstanceCount = 1

\* C29: wipe.sh issues no delete request (services, checker job, repo, VM)
\* unless --yes was given or the user answered the prompt with y or Y; on
\* any other answer it exits 0 having deleted nothing.
C29_NoDeleteWithoutConsent ==
    prog = "wipe.sh" =>
        /\ deletes # <<>> => (YES \/ confirm \in {"y", "Y"})
        /\ spc \in {"delete", "wbatch", "wlaunch", "wreap", "job", "repo"} =>
              (YES \/ confirm \in {"y", "Y"})
        /\ (~YES /\ confirm \in Answers \ {"y", "Y", "EOF"}) =>
              /\ spc = "exited"
              /\ exitCode = 0
              /\ deletes = <<>>

\* the user answered "yes" in full: the script ended with status 0 and
\* issued no delete although there was something to delete
C29_Witness ==
    /\ prog = "wipe.sh" /\ ~YES /\ confirm = "yes"
    /\ SERVICES # <<>>
    /\ spc = "exited" /\ exitCode = 0
    /\ deletes = <<>>

\* the user answered Y and a delete was issued
C29_WitnessConsent ==
    /\ prog = "wipe.sh" /\ ~YES /\ confirm = "Y"
    /\ deletes # <<>>

IsSubmission(c) == c.api \in {"CreateService", "DeleteService"}

(* the targets of the phase: the ordinals below Count for deployServices, *)
(* the listed names for deleteServices                                    *)
NumTargets ==
    IF Cleanup THEN Len(serviceNames) ELSE IF Count < 0 THEN 0 ELSE Count

IsPrefixOf(a, b) == Len(a) <= Len(b) /\ a = SubSeq(b, 1, Len(a))

\* C30: deployServices and deleteServices follow a two-phase protocol: no
\* operation Wait is invoked before the submission of every target has been
\* attempted, each accepted handle is waited on exactly once in submission
\* order, and a target whose submission was rejected or skipped is never
\* waited on.
C30_TwoPhaseProtocol ==
    prog = "orchestrator" =>
        /\ \A k \in 1..Len(calls) :
              calls[k].api = "Wait" =>
                 /\ Cardinality({j \in 1..(k - 1) : IsSubmission(calls[j])})
                       = NumTargets
                 /\ \A j \in (k + 1)..Len(calls) : ~IsSubmission(calls[j])
                 /\ \E j \in 1..(k - 1) :
                       /\ IsSubmission(calls[j])
                       /\ calls[j].name = calls[k].name
                       /\ calls[j].resp = "ok"
        /\ NoDuplicates(CallNames("Wait"))
        /\ IsPrefixOf(CallNames("Wait"),
                      AcceptedNames(IF Cleanup THEN "DeleteService"
                                    ELSE "CreateService"))
        /\ (opc \notin {"flags", "fire", "wait"}
              /\ \E k \in 1..Len(calls) : IsSubmission(calls[k])) =>
              CallNames("Wait") =
                 AcceptedNames(IF Cleanup THEN "DeleteService"
                               ELSE "CreateService")

\* three targets, the second refused: the first and the third were waited
\* on, in that order, after the three submissions
C30_Witness ==
    /\ prog = "orchestrator" /\ ~Cleanup /\ Count = 3 /\ opc = "returned"
    /\ Len(calls) = 5
    /\ calls[2].api = "CreateService" /\ calls[2].resp = "Unavailable"
    /\ calls[4].api = "Wait" /\ calls[4].name = serviceName(Prefix, 0)
    /\ calls[5].api = "Wait" /\ calls[5].name = serviceName(Prefix, 2)

Written(i) == results[i] # zeroResult

WorkerWrote(i) == wpc[i] \in {"pinged", "released", "done"}

\* C31: in pingAll each results slot i is written exactly once, and only by
\* the worker that was given index i; the caller reads results only after
\* all N workers have finished, so that no two workers write the same slot
\* and no read overlaps a write.
C31_SlotsWrittenOnce ==
    (prog = "checker" /\ cpc \in {"pingAll", "report", "exited"}) =>
        /\ Len(results) = N
        /\ \A i \in 1..N :
              /\ Cardinality(GetsOf(i)) <= 1
              /\ Written(i) <=> WorkerWrote(i)
              /\ Written(i) <=> Cardinality(GetsOf(i)) = 1
              /\ Written(i) => results[i].Service = services[i].Name
        /\ (cpc \in {"report", "exited"} /\ N > 0) =>
              \A i \in 1..N : wpc[i] = "done" /\ Written(i)
        /\ logged > 0 => \A i \in 1..N : wpc[i] = "done"
        /\ cpc = "pingAll" => logged = 0

\* main is reading the results of two or more workers, and the worker of
\* the second slot wrote first
C31_Witness ==
    /\ prog = "checker" /\ cpc = "report" /\ N >= 2
    /\ logged = 1
    /\ gets[1].idx = 2
    /\ \A i \in 1..N : Written(i)

OutcomeEventNames ==
    {"service_already_exists", "create_service_failed", "service_deployed",
     "service_deploy_failed"}

OutcomeEvents == SelectSeq(log, LAMBDA e : e.event \in OutcomeEventNames)

OrdinalOf(name) ==
    CHOOSE i \in 0..MaxOrdinal : serviceName(Prefix, i) = name

TargetFailedInDeploy ==
    Count1(calls, CreateRefused) + Count1(calls, WaitFailed) > 0

VerifyStarted ==
    \E k \in 1..Len(calls) : calls[k].api \in {"CreateJob", "RunJob"}

DeployShFailed ==
    \E k \in 1..Len(log) :
        log[k].event = "Deploy summary" /\ log[k].failed > 0

C33_OrchestratorPart ==
    (prog = "orchestrator" /\ ~Cleanup /\ ~VerifyOnly
        /\ TargetFailedInDeploy) =>
        /\ ~VerifyStarted
        /\ opc = "exited" => exitCode # 0

C33_DeployShPart ==
    (prog = "deploy.sh" /\ (DeployShFailed \/ execs # <<>>)) =>
        /\ ~DeployShFailed
           \/ (execs = <<>> /\ spc = "exited" /\ exitCode = 1)
        /\ execs # <<>> => FAILED_NAMES = <<>>

\* C33: the verify phase starts only after a deploy phase with zero failed
\* targets: if a target is still failed after deploy (and its retries) the
\* orchestrator issues no CreateJob/RunJob, deploy.sh executes no checker
\* job, and the process exits non-zero.
C33_VerifyOnlyAfterCleanDeploy == C33_OrchestratorPart /\ C33_DeployShPart

IssuedAny(apis) == \E k \in 1..Len(calls) : calls[k].api \in apis

\* C34: mode frame of the orchestrator: with --verify-only (and no
\* --cleanup) it issues no CreateService and no DeleteService request; with
\* --cleanup it issues no CreateService, CreateJob or RunJob request; when
\* both flags are set, cleanup is the mode that runs.
C34_ModeFrame ==
    prog = "orchestrator" =>
        /\ (VerifyOnly /\ ~Cleanup) =>
              /\ ~IssuedAny({"CreateService", "DeleteService", "ListServices",
                             "Wait", "DeleteJob"})
              /\ requests = {}
        /\ Cleanup =>
              /\ ~IssuedAny({"CreateService", "CreateJob", "UpdateJob",
                             "RunJob", "WaitJob", "Entries"})
              /\ requests = {}
        /\ (Cleanup /\ VerifyOnly /\ Len(calls) > 0) =>
              calls[1].api = "ListServices"
        /\ (~Cleanup /\ ~VerifyOnly) =>
              ~IssuedAny({"DeleteService", "ListServices", "DeleteJob"})

\* both flags are set and the run deleted a service and the checker job
C34_Witness ==
    /\ prog = "orchestrator" /\ Cleanup /\ VerifyOnly
    /\ IssuedAny({"DeleteService"})
    /\ IssuedAny({"DeleteJob"})
    /\ opc = "exited"

\* a verify-only run went through the checker job
C34_WitnessVerifyOnly ==
    /\ prog = "orchestrator" /\ ~Cleanup /\ VerifyOnly
    /\ exists # {}
    /\ IssuedAny({"RunJob"})

\* C35: deploy_batch_list partitions its input in order: within a call the
\* names submitted so far are a prefix of the argument list, the current
\* batch is the slice that starts where the batch before it ended and holds
\* at most BATCH_SIZE names, every finished batch but the last holds exactly
\* BATCH_SIZE, and a call that has returned submitted exactly its argument
\* list, every name once.
C35_OrderedPartition ==
    prog = "deploy.sh" =>
        /\ spc \in {"batch", "launch"} =>
              /\ Len(launched) = (IF spc = "launch" THEN bj ELSE bi)
              /\ Len(launched) <= Len(service_names)
              /\ launched = SubSeq(service_names, 1, Len(launched))
              /\ BATCH_SIZE > 0 =>
                    (bi % BATCH_SIZE = 0 \/ bi = Len(service_names))
        /\ spc = "launch" =>
              /\ batch_names = SubSeq(service_names, bi + 1, bj)
              /\ Len(batch_names) <= BATCH_SIZE
              /\ bj >= batch_end =>
                    \/ Len(batch_names) = BATCH_SIZE
                    \/ batch_end = Len(service_names)
        /\ \A k \in 1..Len(history) :
              /\ history[k].launched = history[k].args
              /\ \A a, b \in 1..Len(history[k].launched) :
                    a # b => history[k].launched[a] # history[k].launched[b]

\* a call with three names and batches of two has returned, and a retry
\* call with the one failed name after it
C35_Witness ==
    /\ prog = "deploy.sh" /\ BATCH_SIZE = 2
    /\ Len(history) = 2
    /\ Len(history[1].args) = 3
    /\ history[2].args = <<history[1].args[3]>>

(* every step of the program that is possible is eventually taken: the *)
(* shell and the Go runtime keep running the main line, every goroutine *)
(* and every background process                                         *)
Fairness == WF_vars(Next)

(* the runs checked for termination: every program, the services that *)
(* exist and the targets of the run being MaxFair at most together     *)
InitFair ==
    /\ Init
    /\ Cardinality(exists) + Count + COUNT <= MaxFair

SpecFair == InitFair /\ [][Next]_vars /\ Fairness

BatchLoopRunning ==
    \/ prog = "deploy.sh" /\ spc \in {"batch", "launch"}
    \/ prog = "wipe.sh" /\ spc \in {"wbatch", "wlaunch"}

\* C36: for every list of names and every BATCH_SIZE accepted by
\* parse_flags, the batch loops of deploy.sh and wipe.sh terminate when
\* every launched gcloud command terminates: a script that is in its batch
\* loop eventually leaves it.
C36_BatchLoopsTerminate == BatchLoopRunning ~> ~BatchLoopRunning

Holding == {i \in 1..N : wpc[i] \in {"pinging", "pinged"}}
PingAllCalled == prog = "checker" /\ cpc = "pingAll"
PingAllReturned == prog = "checker" /\ cpc \in {"report", "exited"}

\* C37: if every probe terminates, pingAll terminates under fair
\* scheduling: a call of pingAll eventually returns; the permits in use are
\* exactly those of the workers between their send to and their receive
\* from the semaphore; and at the return every worker has acquired the
\* semaphore, probed once and finished, and every permit has been released
\* (the semaphore is empty).
C37_PingAllTerminates ==
    /\ PingAllCalled ~> PingAllReturned
    /\ [](prog = "checker" => sem = Cardinality(Holding))
    /\ [](PingAllReturned =>
            /\ sem = 0 /\ wg = 0
            /\ \A i \in 1..N :
                  wpc[i] = "done" /\ Cardinality(GetsOf(i)) = 1)

\* pingAll has returned after a run with more workers than permits, in
\* which the last worker took the only permit first and the others waited
C37_Witness ==
    /\ PingAllReturned /\ cpc = "report"
    /\ N > concurrency /\ concurrency = 1
    /\ Len(gets) = N /\ gets[1].idx = N
    /\ sem = 0

Unsigned(val) == IF val # <<>> /\ val[1] = "+" THEN Tail(val) ELSE val
IsNumeral(s) == s # <<>> /\ \A k \in 1..Len(s) : s[k] \in DigitChars

(* val is a decimal integer, with or without "+", that is at least 1 *)
DecimalAtLeastOne(val) ==
    IsNumeral(Unsigned(val)) /\ TrimZeros(Unsigned(val)) # <<"0">>

(* val is the decimal numeral of n *)
Denotes(val, n) == n >= 0 /\ Digits(n) = TrimZeros(Unsigned(val))

FitsInt(val) == NumeralLeq(TrimZeros(Unsigned(val)), MaxInt)

ConcurrencyParsed ==
    prog = "checker" /\ cpc # "env" /\ RequiredEnv \subseteq supplied

\* C38 as stated: parseConcurrency returns the parsed value when its input
\* is a decimal integer >= 1 and the default (10) otherwise, so the
\* capacity of the semaphore is always >= 1.
C38_ParseConcurrencyAsStated ==
    ConcurrencyParsed =>
        /\ IF DecimalAtLeastOne(CONCURRENCY)
           THEN Denotes(CONCURRENCY, concurrency)
           ELSE concurrency = defaultConcurrency
        /\ concurrency >= 1

\* C38: parseConcurrency returns the parsed value when its input is a
\* decimal integer from 1 to the largest int (1<<63 - 1) and the default
\* (10) otherwise: empty, non-numeric, zero, negative or too large for an
\* int; so the capacity of the semaphore is always >= 1.
C38_ParseConcurrency ==
    ConcurrencyParsed =>
        /\ IF DecimalAtLeastOne(CONCURRENCY) /\ FitsInt(CONCURRENCY)
           THEN Denotes(CONCURRENCY, concurrency)
           ELSE concurrency = defaultConcurrency
        /\ concurrency >= 1
        /\ sem <= concurrency

\* CONCURRENCY=-1: the run used the default capacity and probed a service
C38_Witness ==
    /\ ConcurrencyParsed /\ cpc = "report"
    /\ CONCURRENCY = <<"-", "1">>
    /\ concurrency = defaultConcurrency
    /\ Len(gets) = 1

====
